---- MODULE Spec2Model ----
(***************************************************************************)
(* Tetrad: quadruple-consensus code-review orchestrator (MCP server).      *)
(*                                                                         *)
(* The module holds several specifications over one set of variables:      *)
(*   SpecRules   the consensus rules and the vote aggregator               *)
(*               (src/src/consensus/rules.rs, aggregator.rs)               *)
(*   SpecCache   the TTL+LRU evaluation cache (src/src/cache/lru.rs)       *)
(*   SpecServer  the MCP server loop (src/src/mcp/server.rs, transport.rs) *)
(*   SpecTools   the tool handler (src/src/mcp/tools.rs) under every       *)
(*               choice of reviewers and rule                              *)
(*   SpecPipeline  all tools of the handler with its cache, hooks and      *)
(*               reasoning bank                                            *)
(*   SpecConfirm the confirmations map among the other tools               *)
(* Each specification leaves the variables of the others unchanged.        *)
(***************************************************************************)
EXTENDS Integers, Sequences, FiniteSets, TLC

VARIABLES
    \* --- consensus rules ---
    in_votes,       \* HashMap<String, ModelVote> handed to the aggregator
    out_result,     \* the EvaluationResult of VoteAggregator::aggregate, or NoResult
    \* --- evaluation cache ---
    cache,          \* LruCache<String, CachedResult>: entries, most recently used first
    hits,           \* AtomicU64 hit counter
    misses,         \* AtomicU64 miss counter
    now,            \* Utc::now(), in seconds
    cache_last,     \* the last cache operation and what it returned
    latest_by_key,  \* history: per cache key, the latest insert not since displaced or removed
    gets,           \* history: the number of calls of EvaluationCache::get
    \* --- MCP server loop ---
    pc,             \* position of McpServer::run: "read", "dispatch", "write", "stopped"
    request,        \* the JsonRpcRequest read_message returned
    response,       \* the JsonRpcResponse handle_request returned
    is_notification,\* local of run: request.id.is_none()
    initialized,    \* McpServer.initialized
    stdout,         \* the responses written so far, oldest first
    lines_read,     \* number of read_line calls so far
    last_read,      \* history: kind of the last input read_line returned
    ids_read,       \* history: the id of every request read_message parsed, oldest first
    \* --- tool handler ---
    config,         \* ToolHandler.config: enabled reviewers, consensus rule, min_score
    reviewers,      \* environment: what each reviewer's CLI does when its adapter runs it
    confirmations,  \* ToolHandler.confirmations: HashMap<String, bool>
    uuid_count,     \* number of request ids EvaluationRequest::new has drawn
    tool_last,      \* the last tool call: its arguments, what the reviewers did, its result
    hooks,          \* ToolHandler.hooks: per event, what each registered hook's execute returns
    bank,           \* ToolHandler.reasoning_bank: the SQLite store behind it
    \* --- reasoning bank ---
    patterns,       \* rows of table patterns, in id order
    trajectories,   \* rows of table trajectories, in id order
    bank_now,       \* Utc::now() / datetime('now'), in days
    bank_last,      \* the last bank operation: its arguments, the rows before it, its result
    \* --- one tools/call, subprocess by subprocess ---
    run_pc,         \* position of the handler: "idle", "status", "collect", "responded"
    awaited,        \* handle_status: which of its six awaits it is at
    available,      \* handle_status: what is_available returned, per reviewer
    children,       \* evaluate: per reviewer, its subprocess and how long it has been awaited
    probes,         \* environment: what each reviewer's command does on --version
    timeouts,       \* per reviewer, the timeout of its adapter
    run_response,   \* the ToolResult of the call, once there is one
    \* --- reviewer output parsing ---
    parse_last,     \* the last call of parse_from_output: its input and what it returned
    \* --- hook registry ---
    registered,     \* history: every hook given to register, in registration order
    hook_last,      \* the last call of run_pre_evaluate: the hooks it executed, its result
    \* --- concurrent tool calls on one handler ---
    call_rest,      \* per call, the statements of its handler still to be executed
    call_at,        \* per call, the statement it executed last
    call_held,      \* per call, the lock guards it holds
    cache_filled    \* whether the cache holds a result for the code under review

ruleVars == <<in_votes, out_result>>

cacheVars == <<cache, hits, misses, now, cache_last, latest_by_key, gets>>

serverVars == <<pc, request, response, is_notification, initialized, stdout,
                lines_read, last_read, ids_read>>

vars == <<in_votes, out_result,
          cache, hits, misses, now, cache_last, latest_by_key, gets,
          pc, request, response, is_notification, initialized, stdout,
          lines_read, last_read, ids_read,
          config, reviewers, confirmations, uuid_count, tool_last, hooks, bank,
          patterns, trajectories, bank_now, bank_last,
          run_pc, awaited, available, children, probes, timeouts, run_response,
          parse_last, registered, hook_last,
          call_rest, call_at, call_held, cache_filled>>

runVars == <<run_pc, awaited, available, children, probes, timeouts, run_response>>

parseVars == <<parse_last>>

hookVars == <<registered, hook_last>>

lockVars == <<call_rest, call_at, call_held, cache_filled>>

bankVars == <<patterns, trajectories, bank_now, bank_last>>

toolVars == <<config, reviewers, confirmations, uuid_count, tool_last, hooks, bank>>

\* What each specification leaves alone.
othersOfRules == <<cacheVars, serverVars, toolVars, bankVars, runVars, parseVars, hookVars, lockVars>>

othersOfCache == <<ruleVars, serverVars, toolVars, bankVars, runVars, parseVars, hookVars, lockVars>>

othersOfServer == <<ruleVars, cacheVars, toolVars, bankVars, runVars, parseVars, hookVars, lockVars>>

othersOfTools == <<ruleVars, cacheVars, serverVars, bankVars, runVars, parseVars, hookVars, lockVars>>

othersOfBank == <<ruleVars, cacheVars, serverVars, toolVars, runVars, parseVars, hookVars, lockVars>>

othersOfRun == <<ruleVars, cacheVars, serverVars, toolVars, bankVars, parseVars, hookVars, lockVars>>

othersOfParse == <<ruleVars, cacheVars, serverVars, toolVars, bankVars, runVars, hookVars, lockVars>>

othersOfHooks == <<ruleVars, cacheVars, serverVars, bankVars, runVars, parseVars, lockVars>>

(***************************************************************************)
(* Bounds and domains                                                      *)
(***************************************************************************)
\* Largest number of entries of a vote map handed to the aggregator.
MaxVoters == 4

Voters == 1..MaxVoters

VoteKinds == {"Pass", "Warn", "Fail"}

Decisions == {"Pass", "Revise", "Block"}

RuleNames == {"golden", "strong", "weak"}

\* Scores a reviewer may report (ModelVote.score is a u8).
Scores == {60, 70, 80}

\* Values of consensus.min_score tried.
MinScores == {70, 75}

NoResult == [none |-> TRUE]

ModelVotes == [vote : VoteKinds, score : Scores]

VoteMaps == UNION {[D -> ModelVotes] : D \in SUBSET Voters}

(***************************************************************************)
(* Helpers over vote maps                                                  *)
(***************************************************************************)
RECURSIVE SumOver(_, _)
SumOver(votes, S) ==
    IF S = {} THEN 0
    ELSE LET k == CHOOSE x \in S : TRUE
         IN  votes[k].score + SumOver(votes, S \ {k})

\* votes.values().map(|v| v.score as u32).sum()
SumScores(votes) == SumOver(votes, DOMAIN votes)

\* votes.len()
Len_(votes) == Cardinality(DOMAIN votes)

\* votes.values().filter(|v| v.vote == kind)
VotersOf(votes, kind) == {k \in DOMAIN votes : votes[k].vote = kind}

\* the cast `as u8`
AsU8(n) == n % 256

(***************************************************************************)
(* GoldenRule                                                              *)
(***************************************************************************)
GoldenMinRequired == 3

\* Variant: unanimity judged on the mean score instead of on every score.
GoldenEvaluateByMean(votes, min_score) ==
    IF Len_(votes) < GoldenMinRequired THEN "Revise"
    ELSE LET all_pass == /\ \A k \in DOMAIN votes : votes[k].vote = "Pass"
                         /\ SumScores(votes) \div Len_(votes) >= min_score
             any_fail == \E k \in DOMAIN votes : votes[k].vote = "Fail"
         IN  IF all_pass THEN "Pass"
             ELSE IF any_fail THEN "Block"
             ELSE "Revise"

GoldenEvaluate(votes, min_score) ==
    IF Len_(votes) < GoldenMinRequired THEN "Revise"
    ELSE LET all_pass == \A k \in DOMAIN votes :
                            votes[k].vote = "Pass" /\ votes[k].score >= min_score
             any_fail == \E k \in DOMAIN votes : votes[k].vote = "Fail"
         IN  IF all_pass THEN "Pass"
             ELSE IF any_fail THEN "Block"
             ELSE "Revise"

GoldenIsConsensusAchieved(votes, min_score) ==
    IF Len_(votes) < GoldenMinRequired THEN FALSE
    ELSE GoldenEvaluate(votes, min_score) = "Pass"

(***************************************************************************)
(* StrongRule                                                              *)
(***************************************************************************)
StrongMinRequired == 3

StrongCalculateAverageScore(votes) ==
    IF Len_(votes) = 0 THEN 0
    ELSE AsU8(SumScores(votes) \div Len_(votes))

\* Variant: three Pass votes pass whatever their average score.
StrongEvaluateNoScore(votes, min_score) ==
    IF Len_(votes) < StrongMinRequired THEN "Revise"
    ELSE LET pass_count == Cardinality(VotersOf(votes, "Pass"))
             fail_count == Cardinality(VotersOf(votes, "Fail"))
         IN  IF pass_count = StrongMinRequired THEN "Pass"
             ELSE IF fail_count = StrongMinRequired THEN "Block"
             ELSE "Revise"

\* Variant: the votes present decide, however many reviewers cast one.
StrongEvaluateOfPresent(votes, min_score) ==
    LET pass_count == Cardinality(VotersOf(votes, "Pass"))
        fail_count == Cardinality(VotersOf(votes, "Fail"))
        avg_score  == StrongCalculateAverageScore(votes)
    IN  IF Len_(votes) = 0 THEN "Revise"
        ELSE IF pass_count = Len_(votes) /\ avg_score >= min_score THEN "Pass"
        ELSE IF fail_count = Len_(votes) THEN "Block"
        ELSE "Revise"

StrongEvaluate(votes, min_score) ==
    IF Len_(votes) < StrongMinRequired THEN "Revise"
    ELSE LET pass_count == Cardinality(VotersOf(votes, "Pass"))
             fail_count == Cardinality(VotersOf(votes, "Fail"))
             avg_score  == StrongCalculateAverageScore(votes)
         IN  IF pass_count = StrongMinRequired /\ avg_score >= min_score THEN "Pass"
             ELSE IF fail_count = StrongMinRequired THEN "Block"
             ELSE "Revise"

\* Variant: consensus reported as soon as enough votes are present.
StrongIsConsensusAchievedByCount(votes, min_score) ==
    Len_(votes) >= StrongMinRequired

StrongIsConsensusAchieved(votes, min_score) ==
    IF Len_(votes) < StrongMinRequired THEN FALSE
    ELSE StrongEvaluate(votes, min_score) \in {"Pass", "Block"}

(***************************************************************************)
(* WeakRule                                                                *)
(***************************************************************************)
WeakMinRequired == 2

\* calculate_average_score_of(&pass_votes), given the keys of the slice
WeakCalculateAverageScoreOf(votes, S) ==
    IF S = {} THEN 0
    ELSE AsU8(SumOver(votes, S) \div Cardinality(S))

\* Variant: the average is taken over all votes, not over the Pass votes.
WeakEvaluateMeanOfAll(votes, min_score) ==
    IF Len_(votes) = 0 THEN "Block"
    ELSE LET pass_votes == VotersOf(votes, "Pass")
             fail_count == Cardinality(VotersOf(votes, "Fail"))
         IN  IF Cardinality(pass_votes) >= 2
                /\ WeakCalculateAverageScoreOf(votes, DOMAIN votes) >= min_score
             THEN "Pass"
             ELSE IF fail_count >= 2 THEN "Block"
             ELSE "Revise"

WeakEvaluate(votes, min_score) ==
    IF Len_(votes) = 0 THEN "Block"
    ELSE LET pass_votes == VotersOf(votes, "Pass")
             fail_count == Cardinality(VotersOf(votes, "Fail"))
         IN  IF Cardinality(pass_votes) >= 2
                /\ WeakCalculateAverageScoreOf(votes, pass_votes) >= min_score
             THEN "Pass"
             ELSE IF fail_count >= 2 THEN "Block"
             ELSE "Revise"

WeakIsConsensusAchieved(votes, min_score) ==
    IF Len_(votes) < WeakMinRequired THEN FALSE
    ELSE WeakEvaluate(votes, min_score) \in {"Pass", "Block"}

(***************************************************************************)
(* create_rule: dynamic dispatch on the configured rule                    *)
(***************************************************************************)
RuleEvaluate(rule, votes, min_score) ==
    CASE rule = "golden" -> GoldenEvaluate(votes, min_score)
      [] rule = "strong" -> StrongEvaluate(votes, min_score)
      [] rule = "weak"   -> WeakEvaluate(votes, min_score)

RuleIsConsensusAchieved(rule, votes, min_score) ==
    CASE rule = "golden" -> GoldenIsConsensusAchieved(votes, min_score)
      [] rule = "strong" -> StrongIsConsensusAchieved(votes, min_score)
      [] rule = "weak"   -> WeakIsConsensusAchieved(votes, min_score)

(***************************************************************************)
(* VoteAggregator                                                          *)
(***************************************************************************)
CalculateScore(votes) ==
    IF Len_(votes) = 0 THEN 0
    ELSE AsU8(SumScores(votes) \div Len_(votes))

\* The EvaluationResult; findings and feedback text are not modelled.
Aggregate(votes, rule, min_score, request_id) ==
    [request_id         |-> request_id,
     decision           |-> RuleEvaluate(rule, votes, min_score),
     score              |-> CalculateScore(votes),
     consensus_achieved |-> RuleIsConsensusAchieved(rule, votes, min_score),
     votes              |-> votes]

(***************************************************************************)
(* EvaluationCache (src/src/cache/lru.rs)                                  *)
(*                                                                         *)
(* Text is a sequence of one-character strings.  SHA-256 is taken to be    *)
(* injective, so a cache key is the byte string that is hashed.            *)
(***************************************************************************)
\* cache.capacity of the configuration
CacheCapacity == 2

\* cache.ttl_secs of the configuration
CacheTtl == 1

\* The clock stops here.
MaxTime == 2

\* At most this many get calls are made (hits + misses).
MaxGets == 2

NoEntry == [none |-> TRUE]

None == [none |-> TRUE]

Some(v) == [some |-> v]

IsWhitespace(c) == c \in {" ", "\n", "\r", "\t"}

RECURSIVE TrimStart(_)
TrimStart(s) ==
    IF s = <<>> THEN <<>>
    ELSE IF IsWhitespace(Head(s)) THEN TrimStart(Tail(s))
    ELSE s

RECURSIVE TrimEnd(_)
TrimEnd(s) ==
    IF s = <<>> THEN <<>>
    ELSE IF IsWhitespace(s[Len(s)]) THEN TrimEnd(SubSeq(s, 1, Len(s) - 1))
    ELSE s

\* str::trim
Trim(s) == TrimEnd(TrimStart(s))

\* str::lines: the text split at newlines
RECURSIVE Lines(_, _)
Lines(s, cur) ==
    IF s = <<>> THEN (IF cur = <<>> THEN <<>> ELSE <<cur>>)
    ELSE IF Head(s) = "\n" THEN <<cur>> \o Lines(Tail(s), <<>>)
    ELSE Lines(Tail(s), Append(cur, Head(s)))

\* Vec<&str>::join("\n")
RECURSIVE JoinLines(_)
JoinLines(ls) ==
    IF ls = <<>> THEN <<>>
    ELSE IF Len(ls) = 1 THEN ls[1]
    ELSE ls[1] \o <<"\n">> \o JoinLines(Tail(ls))

RECURSIVE TrimAll(_)
TrimAll(ls) ==
    IF ls = <<>> THEN <<>> ELSE <<Trim(Head(ls))>> \o TrimAll(Tail(ls))

NonEmpty(l) == l # <<>>

\* EvaluationCache::normalize_code
NormalizeCode(code) == JoinLines(SelectSeq(TrimAll(Lines(code, <<>>)), NonEmpty))

EvalTypeStr(eval_type) ==
    CASE eval_type = "Plan"       -> <<"p", "l", "a", "n">>
      [] eval_type = "Code"       -> <<"c", "o", "d", "e">>
      [] eval_type = "Tests"      -> <<"t", "e", "s", "t", "s">>
      [] eval_type = "FinalCheck" -> <<"f", "i", "n", "a", "l">>

\* EvaluationCache::cache_key: the hasher is fed the normalized code, the
\* language and the kind tag, one after the other.
CacheKey(code, language, eval_type) ==
    NormalizeCode(code) \o language \o EvalTypeStr(eval_type)

\* Variant: an entry expires as soon as its age reaches the TTL.
IsExpiredAtTtl(entry, ttl, t) ==
    LET elapsed == t - entry.cached_at
    IN  IF elapsed < 0 THEN TRUE ELSE elapsed >= ttl

\* CachedResult::is_expired; a negative age fails to_std() and counts as expired.
IsExpired(entry, ttl, t) ==
    LET elapsed == t - entry.cached_at
    IN  IF elapsed < 0 THEN TRUE ELSE elapsed > ttl

\* EvaluationCache::new: a capacity of 0 becomes 100.
EffectiveCapacity(capacity) == IF capacity = 0 THEN 100 ELSE capacity

\* --- lru::LruCache, entries kept most recently used first ---
LruIndex(c, key) ==
    IF \E i \in 1..Len(c) : c[i].key = key
    THEN CHOOSE i \in 1..Len(c) : c[i].key = key
    ELSE 0

LruRemoveAt(c, i) == SubSeq(c, 1, i - 1) \o SubSeq(c, i + 1, Len(c))

\* LruCache::pop
LruPop(c, key) ==
    IF LruIndex(c, key) = 0 THEN c ELSE LruRemoveAt(c, LruIndex(c, key))

\* LruCache::get: the entry moves to the front
LruTouch(c, key) ==
    IF LruIndex(c, key) = 0 THEN c
    ELSE <<c[LruIndex(c, key)]>> \o LruRemoveAt(c, LruIndex(c, key))

\* The key LruCache::put displaces: the least recently used one, when the key
\* is new and the cache is full.
LruEvicted(c, key, cap) ==
    IF LruIndex(c, key) = 0 /\ Len(c) >= cap THEN {c[Len(c)].key} ELSE {}

\* LruCache::put
LruPut(c, entry, cap) ==
    IF LruIndex(c, entry.key) # 0
    THEN <<entry>> \o LruRemoveAt(c, LruIndex(c, entry.key))
    ELSE IF Len(c) >= cap
    THEN <<entry>> \o SubSeq(c, 1, Len(c) - 1)
    ELSE <<entry>> \o c

\* --- EvaluationCache operations, as functions of the cache state ---
\* Variant: a lookup that never finds the entry.
CacheGetNoHit(c, h, m, key, ttl, t) ==
    [cache |-> c, hits |-> h, misses |-> m + 1, ret |-> None]

\* Variant: a hit read with peek, which leaves the recency order alone.
CacheGetWithoutTouch(c, h, m, key, ttl, t) ==
    LET i == LruIndex(c, key)
    IN  IF i = 0
        THEN [cache |-> c, hits |-> h, misses |-> m + 1, ret |-> None]
        ELSE IF IsExpired(c[i], ttl, t)
        THEN [cache |-> LruPop(c, key), hits |-> h, misses |-> m + 1, ret |-> None]
        ELSE [cache |-> c, hits |-> h + 1, misses |-> m, ret |-> Some(c[i].result)]

\* EvaluationCache::get: [cache, hits, misses, ret]
CacheGet(c, h, m, key, ttl, t) ==
    LET i == LruIndex(c, key)
    IN  IF i = 0
        THEN [cache |-> c, hits |-> h, misses |-> m + 1, ret |-> None]
        ELSE IF IsExpired(c[i], ttl, t)
        THEN [cache |-> LruPop(c, key), hits |-> h, misses |-> m + 1, ret |-> None]
        ELSE [cache |-> LruTouch(c, key), hits |-> h + 1, misses |-> m,
              ret |-> Some(c[i].result)]

\* EvaluationCache::insert (CachedResult::new stamps the entry with the time)
CacheInsert(c, key, result, cap, t) ==
    LruPut(c, [key |-> key, result |-> result, cached_at |-> t], cap)

NotExpiredAt(ttl, t, entry) == ~IsExpired(entry, ttl, t)

\* EvaluationCache::cleanup_expired
RECURSIVE CacheCleanupExpired(_, _, _)
CacheCleanupExpired(c, ttl, t) ==
    IF c = <<>> THEN <<>>
    ELSE IF IsExpired(Head(c), ttl, t) THEN CacheCleanupExpired(Tail(c), ttl, t)
    ELSE <<Head(c)>> \o CacheCleanupExpired(Tail(c), ttl, t)

(***************************************************************************)
(* SpecCache: the cache driven through its public operations               *)
(***************************************************************************)
\* The (code, language, kind) triples tried: a code, the same code with extra
\* whitespace, a code/language pair with the same concatenation, the same code
\* under another kind, and an unrelated code.
CacheTriples ==
    { <<<<"a">>, <<"b", "c">>, "Code">>,
      <<<<" ", "a", "\n">>, <<"b", "c">>, "Code">>,
      <<<<"a", "b">>, <<"c">>, "Code">>,
      <<<<"a">>, <<"b", "c">>, "Plan">>,
      <<<<"b">>, <<"c">>, "Code">> }

\* The cache key of each triple.
KeyTable == [t \in CacheTriples |-> CacheKey(t[1], t[2], t[3])]

KeyOf(triple) == KeyTable[triple]

CacheKeys == {KeyOf(t) : t \in CacheTriples}

\* The cached EvaluationResults, told apart by their request id.
CacheValues == {"r1", "r2"}

\* State of the cache variables in the specifications that do not use them.
CacheIdle ==
    /\ cache = <<>>
    /\ hits = 0
    /\ misses = 0
    /\ now = 0
    /\ cache_last = [op |-> "none"]
    /\ latest_by_key = [k \in CacheKeys |-> NoEntry]
    /\ gets = 0

RulesIdle ==
    /\ in_votes = <<>>
    /\ out_result = NoResult

\* ReasoningBank::new on a fresh database file.
BankIdle ==
    /\ patterns = <<>>
    /\ trajectories = <<>>
    /\ bank_now = 0
    /\ bank_last = [op |-> "none"]

\* No reviewer output parsed yet.
ParseIdle == parse_last = [op |-> "none"]

\* No tool call is under way.
LocksIdle ==
    /\ call_rest = <<>>
    /\ call_at = <<>>
    /\ call_held = <<>>
    /\ cache_filled = FALSE

\* HookSystem::new, before any register.
HooksIdle ==
    /\ registered = <<>>
    /\ hook_last = [op |-> "none"]

\* No tools/call under way.
RunIdle ==
    /\ run_pc = "idle"
    /\ awaited = 0
    /\ available = <<>>
    /\ children = <<>>
    /\ probes = <<>>
    /\ timeouts = <<>>
    /\ run_response = None

\* McpServer::new, before run is entered.
ServerIdle ==
    /\ pc = "read"
    /\ request = None
    /\ response = None
    /\ is_notification = FALSE
    /\ initialized = FALSE
    /\ stdout = <<>>
    /\ lines_read = 0
    /\ last_read = "none"
    /\ ids_read = <<>>

\* ToolHandler::new under Config::default().
ToolsIdle ==
    /\ config = [enabled |-> {"Codex", "Gemini", "Qwen"}, rule |-> "strong", min_score |-> 70,
                 cache_enabled |-> TRUE, reasoning_enabled |-> TRUE]
    /\ reviewers = [r \in {"Codex", "Gemini", "Qwen"} |-> [kind |-> "not_found"]]
    /\ confirmations = <<>>
    /\ uuid_count = 0
    /\ tool_last = [tool |-> "none"]
    /\ hooks = [pre_evaluate |-> <<>>, post_evaluate |-> <<"Continue">>,
                on_consensus |-> <<>>, on_block |-> <<>>]
    /\ bank = [failing |-> FALSE, patterns |-> 0, trajectories |-> {}]

InitCache ==
    /\ CacheIdle
    /\ RulesIdle
    /\ ServerIdle
    /\ BankIdle
    /\ RunIdle
    /\ ParseIdle
    /\ LocksIdle
    /\ HooksIdle
    /\ ToolsIdle

\* History: drop the entries of a set of keys.
Forget(gone) ==
    latest_by_key' = [k \in CacheKeys |->
                         IF k \in gone THEN NoEntry ELSE latest_by_key[k]]

\* EvaluationCache::insert_by_code
InsertByCode ==
    \E t \in CacheTriples, v \in CacheValues :
        LET key  == KeyOf(t)
            cap  == EffectiveCapacity(CacheCapacity)
            gone == LruEvicted(cache, key, cap)
        IN  /\ cache' = CacheInsert(cache, key, v, cap, now)
            /\ latest_by_key' = [k \in CacheKeys |->
                    IF k = key THEN [value |-> v, at |-> now, triple |-> t]
                    ELSE IF k \in gone THEN NoEntry ELSE latest_by_key[k]]
            /\ cache_last' = [op |-> "insert", key |-> key, evicted |-> gone # {}]
            /\ UNCHANGED <<hits, misses, now, gets>>
            /\ UNCHANGED othersOfCache

\* EvaluationCache::get_by_code
GetByCode ==
    /\ hits + misses < MaxGets
    /\ \E t \in CacheTriples :
        LET r == CacheGet(cache, hits, misses, KeyOf(t), CacheTtl, now)
        IN  /\ cache' = r.cache
            /\ hits' = r.hits
            /\ misses' = r.misses
            /\ cache_last' = [op |-> "get", triple |-> t, ret |-> r.ret]
            /\ gets' = gets + 1
            /\ UNCHANGED <<now, latest_by_key>>
            /\ UNCHANGED othersOfCache

\* EvaluationCache::invalidate
Invalidate ==
    \E key \in CacheKeys :
        /\ cache' = LruPop(cache, key)
        /\ Forget({key})
        /\ cache_last' = [op |-> "invalidate"]
        /\ UNCHANGED <<hits, misses, now, gets>>
        /\ UNCHANGED othersOfCache

\* EvaluationCache::clear
Clear ==
    /\ cache' = <<>>
    /\ Forget(CacheKeys)
    /\ cache_last' = [op |-> "clear"]
    /\ UNCHANGED <<hits, misses, now, gets>>
    /\ UNCHANGED othersOfCache

\* EvaluationCache::cleanup_expired
CleanupExpired ==
    /\ cache' = CacheCleanupExpired(cache, CacheTtl, now)
    /\ cache_last' = [op |-> "cleanup"]
    /\ UNCHANGED <<hits, misses, now, latest_by_key, gets>>
    /\ UNCHANGED othersOfCache

\* EvaluationCache::stats
Stats ==
    /\ cache_last' = [op |-> "stats",
                      stats |-> [size |-> Len(cache),
                                 capacity |-> EffectiveCapacity(CacheCapacity),
                                 hits |-> hits, misses |-> misses]]
    /\ UNCHANGED <<cache, hits, misses, now, latest_by_key, gets>>
    /\ UNCHANGED othersOfCache

\* A second passes.
Tick ==
    /\ now < MaxTime
    /\ now' = now + 1
    /\ cache_last' = [op |-> "tick"]
    /\ UNCHANGED <<cache, hits, misses, latest_by_key, gets>>
    /\ UNCHANGED othersOfCache

NextCache ==
    \/ InsertByCode
    \/ GetByCode
    \/ Invalidate
    \/ Clear
    \/ CleanupExpired
    \/ Stats
    \/ Tick

SpecCache == InitCache /\ [][NextCache]_vars

(***************************************************************************)
(* SpecRules: a vote map is drawn, then ConsensusEngine::evaluate is       *)
(* applied under some rule and min_score.                                  *)
(***************************************************************************)
InitRules ==
    /\ in_votes \in VoteMaps
    /\ out_result = NoResult
    /\ CacheIdle
    /\ ServerIdle
    /\ BankIdle
    /\ RunIdle
    /\ ParseIdle
    /\ LocksIdle
    /\ HooksIdle
    /\ ToolsIdle

\* ConsensusEngine::evaluate
EngineEvaluate ==
    /\ out_result = NoResult
    /\ \E rule \in RuleNames, min_score \in MinScores :
          out_result' = [rule      |-> rule,
                         min_score |-> min_score,
                         result    |-> Aggregate(in_votes, rule, min_score, 0)]
    /\ UNCHANGED in_votes
    /\ UNCHANGED othersOfRules

NextRules == EngineEvaluate

SpecRules == InitRules /\ [][NextRules]_vars

(***************************************************************************)
(* MCP server (src/src/mcp/server.rs, transport.rs, protocol.rs)           *)
(***************************************************************************)
\* Number of read_line calls explored.
MaxLines == 3

\* JsonRpcId: Number(i64) or String.
JsonRpcIds == {[number |-> 1], [string |-> "a"]}

\* The "id" member of an input object: missing, JSON null, or a value.
IdMembers == {[absent |-> TRUE], [null |-> TRUE]} \cup JsonRpcIds

Methods == {"initialize", "initialized", "shutdown", "tools/list",
            "tools/call", "unknown/method"}

\* The "params" member of a tools/call: missing, not a CallToolParams, or a
\* tool name with its arguments.
CallParams ==
    {None, [invalid |-> TRUE],
     [name |-> "tetrad_status", arguments |-> "valid"],
     [name |-> "tetrad_review_code", arguments |-> "invalid"],
     [name |-> "no_such_tool", arguments |-> "valid"]}

RequestLines ==
    {[kind |-> "request", id |-> i, method |-> m, params |-> p] :
        i \in IdMembers, m \in Methods, p \in CallParams}

\* What read_line can return: end of input, a read error, or one line of
\* text (blank, not JSON, JSON cut short, a JSON string, a request object).
InputLines ==
    {l \in RequestLines : l.method # "tools/call" => l.params = None}
    \cup {[kind |-> k] : k \in {"eof", "io_error", "blank", "malformed", "truncated"}}
    \cup {[kind |-> "json_string", word |-> w] : w \in {"hello", "empty"}}

Ok(v) == [ok |-> v]

Err(e) == [err |-> e]

IsOk(r) == "ok" \in DOMAIN r

\* Error texts are sequences of words; TetradError's Display prefixes.
ErrConfig(msg) == <<"Configuration", "error:">> \o msg

ErrIo(msg) == <<"IO", "error:">> \o msg

ErrJson(msg) == <<"JSON", "error:">> \o msg

\* str::contains for a one-word needle.
Contains(text, word) == \E i \in 1..Len(text) : text[i] = word

\* The text of the serde_json error for a line that is not a request object.
SerdeMessage(line) ==
    CASE line.kind = "malformed"   -> <<"expected", "ident">>
      [] line.kind = "truncated"   -> <<"EOF", "while", "parsing", "an", "object">>
      [] line.kind = "json_string" -> <<"invalid", "type:", "string", line.word,
                                        "expected", "struct", "JsonRpcRequest">>

\* Option<JsonRpcId> from the "id" member: missing and null both give None.
DeserializeId(member) ==
    IF member \in JsonRpcIds THEN Some(member) ELSE None

\* StdioTransport::read_message on what read_line returned.
ReadMessage(line) ==
    CASE line.kind = "io_error" ->
            Err(ErrIo(<<"stream", "did", "not", "contain", "valid", "UTF-8">>))
      [] line.kind = "eof"      -> Err(ErrConfig(<<"EOF">>))
      [] line.kind = "blank"    -> Err(ErrConfig(<<"Empty", "message", "received">>))
      [] line.kind = "request"  ->
            Ok([jsonrpc |-> "2.0",
                id      |-> DeserializeId(line.id),
                method  |-> line.method,
                params  |-> line.params])
      [] OTHER                  -> Err(ErrJson(SerdeMessage(line)))

METHOD_NOT_FOUND == 0 - 32601

INVALID_PARAMS == 0 - 32602

\* JsonRpcResponse::success
ResponseSuccess(id, result) ==
    [jsonrpc |-> "2.0", id |-> id, result |-> Some(result), error |-> None]

\* Variant: an error response that does not carry the request id.
ResponseErrorNoId(id, code) ==
    [jsonrpc |-> "2.0", id |-> None, result |-> None, error |-> Some(code)]

\* JsonRpcResponse::error
ResponseError(id, code) ==
    [jsonrpc |-> "2.0", id |-> id, result |-> None, error |-> Some(code)]

\* ToolHandler::handle_tool_call for the calls that touch no handler state.
HandleToolCall(params) ==
    IF params.name = "tetrad_status"
    THEN [content |-> "status", is_error |-> FALSE]
    ELSE IF params.name = "tetrad_review_code"
    THEN [content |-> "Invalid parameters", is_error |-> TRUE]
    ELSE [content |-> "Unknown tool", is_error |-> TRUE]

INTERNAL_ERROR == 0 - 32603

\* Variant: the error of a tool is reported as a JSON-RPC error.
ToolsCallResponseRaisesErrors(id, result) ==
    IF result.is_error THEN ResponseError(id, INTERNAL_ERROR)
    ELSE ResponseSuccess(id, result)

\* McpServer::handle_tools_call: the response that carries the handler's ToolResult
ToolsCallResponse(id, result) == ResponseSuccess(id, result)

\* McpServer::handle_tools_call
HandleToolsCall(req) ==
    IF req.params = None THEN ResponseError(req.id, INVALID_PARAMS)
    ELSE IF "invalid" \in DOMAIN req.params THEN ResponseError(req.id, INVALID_PARAMS)
    ELSE ToolsCallResponse(req.id, HandleToolCall(req.params))

\* McpServer::handle_request: the response
HandleRequestResponse(req) ==
    CASE req.method = "initialize"  -> ResponseSuccess(req.id, [value |-> "InitializeResult"])
      [] req.method = "initialized" -> ResponseSuccess(req.id, [value |-> "{}"])
      [] req.method = "shutdown"    -> ResponseSuccess(req.id, [value |-> "null"])
      [] req.method = "tools/list"  -> ResponseSuccess(req.id, [value |-> "ListToolsResult"])
      [] req.method = "tools/call"  -> HandleToolsCall(req)
      [] OTHER                      -> ResponseError(req.id, METHOD_NOT_FOUND)

\* McpServer::handle_request: the initialized flag afterwards
HandleRequestInitialized(req, flag) ==
    CASE req.method = "initialize" -> TRUE
      [] req.method = "shutdown"   -> FALSE
      [] OTHER                     -> flag

\* The test in run that ends the loop on a read_message error.
IsDisconnect(text) == Contains(text, "EOF") \/ Contains(text, "empty")

\* run: read_message returned Err and the loop ends.
ReadDisconnect ==
    /\ pc = "read"
    /\ lines_read < MaxLines
    /\ \E line \in InputLines :
          LET r == ReadMessage(line)
          IN  /\ ~IsOk(r)
              /\ IsDisconnect(r.err)
              /\ last_read' = line.kind
    /\ pc' = "stopped"
    /\ lines_read' = lines_read + 1
    /\ UNCHANGED <<request, response, is_notification, initialized, stdout, ids_read>>
    /\ UNCHANGED othersOfServer

\* run: read_message returned Err and the loop continues.
ReadFailure ==
    /\ pc = "read"
    /\ lines_read < MaxLines
    /\ \E line \in InputLines :
          LET r == ReadMessage(line)
          IN  /\ ~IsOk(r)
              /\ ~IsDisconnect(r.err)
              /\ last_read' = line.kind
    /\ lines_read' = lines_read + 1
    /\ UNCHANGED <<pc, request, response, is_notification, initialized, stdout, ids_read>>
    /\ UNCHANGED othersOfServer

\* run: read_message returned a request.
ReadRequest ==
    /\ pc = "read"
    /\ lines_read < MaxLines
    /\ \E line \in InputLines :
          LET r == ReadMessage(line)
          IN  /\ IsOk(r)
              /\ request' = r.ok
              /\ is_notification' = (r.ok.id = None)
              /\ ids_read' = Append(ids_read, r.ok.id)
              /\ last_read' = line.kind
    /\ pc' = "dispatch"
    /\ lines_read' = lines_read + 1
    /\ UNCHANGED <<response, initialized, stdout>>
    /\ UNCHANGED othersOfServer

\* run: self.handle_request(request).await
HandleRequest ==
    /\ pc = "dispatch"
    /\ response' = HandleRequestResponse(request)
    /\ initialized' = HandleRequestInitialized(request, initialized)
    /\ pc' = IF is_notification THEN "read" ELSE "write"
    /\ UNCHANGED <<request, is_notification, stdout, lines_read, last_read, ids_read>>
    /\ UNCHANGED othersOfServer

\* run: self.transport.write_response(&response), on a stdout that accepts it
WriteResponse ==
    /\ pc = "write"
    /\ stdout' = Append(stdout, response)
    /\ pc' = "read"
    /\ UNCHANGED <<request, response, is_notification, initialized,
                   lines_read, last_read, ids_read>>
    /\ UNCHANGED othersOfServer

InitServer ==
    /\ ServerIdle
    /\ BankIdle
    /\ RunIdle
    /\ ParseIdle
    /\ LocksIdle
    /\ HooksIdle
    /\ RulesIdle
    /\ CacheIdle
    /\ ToolsIdle

NextServer ==
    \/ ReadDisconnect
    \/ ReadFailure
    \/ ReadRequest
    \/ HandleRequest
    \/ WriteResponse

SpecServer == InitServer /\ [][NextServer]_vars

(***************************************************************************)
(* Tool handler (src/src/mcp/tools.rs) and the reviewer adapters           *)
(* (src/src/executors/codex.rs, gemini.rs, qwen.rs)                        *)
(***************************************************************************)
\* Number of evaluations explored (request ids drawn).
MaxEvals == 2

Reviewers == {"Codex", "Gemini", "Qwen"}

\* Request ids a client may name in tetrad_confirm.
ConfirmIds == {1}

\* The tetrad_confirm calls tried: the request agreed to or not.
ConfirmCalls == [request_id : ConfirmIds, agreed : BOOLEAN]

\* Request ids a client may name as previous_request_id.
PreviousIds == {1, 2}

\* default_min_score
DefaultMinScore == 70

\* Config under any choice of reviewers and rule, the cache and the reasoning
\* bank left enabled as in CacheConfig::default and ReasoningConfig::default.
Configs ==
    [enabled : SUBSET Reviewers, rule : RuleNames, min_score : {DefaultMinScore},
     cache_enabled : {TRUE}, reasoning_enabled : {TRUE}]

\* What a reviewer subprocess does within one evaluate: prints a verdict the
\* adapter can read, prints something it cannot, is not installed, or does
\* not finish within the timeout.
Verdicts ==
    {[kind |-> "verdict", vote |-> "Pass", score |-> 90],
     [kind |-> "verdict", vote |-> "Pass", score |-> 60],
     [kind |-> "verdict", vote |-> "Fail", score |-> 60],
     [kind |-> "verdict", vote |-> "Fail", score |-> 90]}

ExecOutcomes ==
    Verdicts \cup {[kind |-> k] : k \in {"unparseable", "not_found", "timeout"}}

\* The adapter was not called.
NotRun == [kind |-> "not_run"]

\* ExecutorResponse::parse_from_output on a printed JSON object with any text
\* as its vote and any integer as its score: score is a u8.
ParseFromOutput(printed) ==
    IF printed.score \in 0..255
    THEN Ok([vote |-> printed.vote, score |-> printed.score])
    ELSE Err([error |-> "ExecutorFailed"])

\* str::to_uppercase on the vote texts tried
ToUppercase(text) ==
    CASE text \in {"pass", "PASS"} -> "PASS"
      [] text \in {"warn", "WARN"} -> "WARN"
      [] text \in {"fail", "FAIL"} -> "FAIL"
      [] OTHER                     -> "MAYBE"

\* ExecutorResponse::into_vote
IntoVote(executor_name, resp) ==
    LET upper == ToUppercase(resp.vote)
        vote  == CASE upper = "PASS" -> "Pass"
                   [] upper = "WARN" -> "Warn"
                   [] OTHER          -> "Fail"
    IN  [executor |-> executor_name, vote |-> vote, score |-> resp.score]

\* analyze_text_response of Codex and Gemini on a text with none of its keywords
AnalyzeTextResponse == [vote |-> "PASS", score |-> 80]

\* The adapters' handling of a printed JSON object: Codex and Gemini fall back
\* to the keyword analysis of the agent message, Qwen returns the parse error.
EvaluatePrinted(name, printed) ==
    LET parsed == ParseFromOutput(printed)
    IN  IF IsOk(parsed) THEN Ok(IntoVote(name, parsed.ok))
        ELSE IF name \in {"Codex", "Gemini"}
        THEN Ok(IntoVote(name, AnalyzeTextResponse))
        ELSE Err([error |-> "ExecutorFailed", executor |-> name])

\* ModelVote::new
ModelVoteNew(executor, vote, score) ==
    [executor |-> executor, vote |-> vote, score |-> score]

\* Variant: a timeout is reported as a failing verdict.
ExecutorEvaluateTimeoutFails(name, outcome) ==
    CASE outcome.kind = "verdict" ->
            Ok(ModelVoteNew(name, outcome.vote, outcome.score))
      [] outcome.kind = "json" -> EvaluatePrinted(name, outcome)
      [] outcome.kind = "unparseable" ->
            Err([error |-> "ExecutorFailed", executor |-> name])
      [] outcome.kind = "not_found" ->
            Ok(ModelVoteNew(name, "Warn", 50))
      [] outcome.kind = "timeout" ->
            Ok(ModelVoteNew(name, "Fail", 0))

\* CliExecutor::evaluate of the three adapters
ExecutorEvaluate(name, outcome) ==
    CASE outcome.kind = "verdict" ->
            Ok(ModelVoteNew(name, outcome.vote, outcome.score))
      [] outcome.kind = "json" -> EvaluatePrinted(name, outcome)
      [] outcome.kind = "unparseable" ->
            Err([error |-> "ExecutorFailed", executor |-> name])
      [] outcome.kind = "not_found" ->
            Ok(ModelVoteNew(name, "Warn", 50))
      [] outcome.kind = "timeout" ->
            Err([error |-> "ExecutorTimeout", executor |-> name])

\* Variant: a reviewer whose evaluate fails gets no vote.
GetVoteIfEnabledDropsErrors(name, outcome, enabled) ==
    IF ~enabled THEN None
    ELSE LET r == ExecutorEvaluate(name, outcome)
         IN  IF IsOk(r) THEN Some(r.ok) ELSE None

\* ToolHandler::get_vote_if_enabled
GetVoteIfEnabled(name, outcome, enabled) ==
    IF ~enabled THEN None
    ELSE LET r == ExecutorEvaluate(name, outcome)
         IN  IF IsOk(r) THEN Some(r.ok)
             ELSE Some(ModelVoteNew(name, "Warn", 50))

\* ToolHandler::collect_votes
CollectVotes(outcomes, cfg) ==
    LET got == [r \in Reviewers |->
                   GetVoteIfEnabled(r, outcomes[r], r \in cfg.enabled)]
    IN  [r \in {x \in Reviewers : got[x] # None} |-> got[r].some]

\* The hooks HookSystem::with_defaults registers, by event, each given as what
\* its execute returns: LoggingHook, on PostEvaluate, returns Continue.
PreEvaluateHooks == <<>>

PostEvaluateHooks == <<"Continue">>

OnConsensusHooks == <<>>

OnBlockHooks == <<>>

\* Variant: a Skip is passed over like a Continue.
RunPreEvaluateIgnoresSkip(hks) ==
    IF \E i \in 1..Len(hks) : hks[i] = "Err" THEN "Err" ELSE "Continue"

\* HookSystem::run_pre_evaluate: the first result that is not Continue
RunPreEvaluate(hks) ==
    IF \E i \in 1..Len(hks) : hks[i] # "Continue"
    THEN hks[CHOOSE i \in 1..Len(hks) :
                /\ hks[i] # "Continue"
                /\ \A j \in 1..(i - 1) : hks[j] = "Continue"]
    ELSE "Continue"

\* Variant: the error of a hook is logged and the loop goes on.
RunHooksIgnoringErrors(hks) == "Ok"

\* HookSystem::run_post_evaluate, run_on_consensus, run_on_block
RunHooks(hks) ==
    IF \E i \in 1..Len(hks) : hks[i] = "Err" THEN "Err" ELSE "Ok"

\* HookSystem::with_defaults
HooksWithDefaults ==
    [pre_evaluate  |-> PreEvaluateHooks,
     post_evaluate |-> PostEvaluateHooks,
     on_consensus  |-> OnConsensusHooks,
     on_block      |-> OnBlockHooks]

\* The results of a PreEvaluate hook that end the loop of run_pre_evaluate: the
\* two verdicts it returns on, and the error its question mark returns.
PreEvaluateStops == {"Skip", "ModifyRequest", "Err"}

\* The hooks of one event whose execute is called by the loop over them: all
\* up to and including the first whose result ends the loop.
HooksExecuted(event, hks, stops) ==
    LET n == IF \E i \in 1..Len(hks) : hks[i] \in stops
             THEN CHOOSE i \in 1..Len(hks) :
                      /\ hks[i] \in stops
                      /\ \A j \in 1..(i - 1) : hks[j] \notin stops
             ELSE Len(hks)
    IN  [i \in 1..n |-> [event |-> event, hook |-> i, result |-> hks[i]]]

\* ReasoningBank::retrieve: the number of patterns matched; a failing query
\* contributes no match.
ReasoningBankRetrieve(bk) == IF bk.failing THEN 0 ELSE bk.patterns

\* ReasoningBank::judge: [ret, bank]; save_trajectory comes first, and a good
\* pattern is registered for an evaluation that reached consensus.
ReasoningBankJudge(bk, request_id, result) ==
    IF bk.failing THEN [ret |-> Err("sqlite"), bank |-> bk]
    ELSE [ret  |-> Ok([was_successful |-> result.consensus_achieved]),
          bank |-> [failing      |-> bk.failing,
                    patterns     |-> IF result.consensus_achieved
                                     THEN bk.patterns + 1 ELSE bk.patterns,
                    trajectories |-> bk.trajectories \cup {request_id}]]

\* EvaluationResult::success
EvaluationResultSuccess(request_id, score) ==
    [request_id         |-> request_id,
     decision           |-> "Pass",
     score              |-> score,
     consensus_achieved |-> TRUE,
     votes              |-> <<>>]

\* What one evaluation did besides returning: the reviewers whose adapter was
\* called, the hooks executed, whether judge was called, the bank afterwards.
Trace(ret, invoked, hooks_run, judge_called, bk) ==
    [ret          |-> ret,
     invoked      |-> invoked,
     hooks_run    |-> hooks_run,
     judge_called |-> judge_called,
     bank         |-> bk]

\* Variant: an error of judge is returned to the caller, as the errors of the
\* hooks are.
EvaluateInternalJudgeFails(request_id, outcomes, cfg, hks, bk) ==
    LET votes  == CollectVotes(outcomes, cfg)
        result == Aggregate(votes, cfg.rule, cfg.min_score, request_id)
        run    == HooksExecuted("PostEvaluate", hks.post_evaluate, {"Err"})
        judged == ReasoningBankJudge(bk, request_id, result)
    IN  IF ~cfg.reasoning_enabled THEN Trace(Ok(result), DOMAIN votes, run, FALSE, bk)
        ELSE IF IsOk(judged.ret) THEN Trace(Ok(result), DOMAIN votes, run, TRUE, judged.bank)
        ELSE Trace(Err("bank"), DOMAIN votes, run, TRUE, bk)

\* Variant: code that matches a known pattern is passed without asking the
\* reviewers.
EvaluateInternalTrustsBank(request_id, outcomes, cfg, hks, bk) ==
    LET known_patterns == IF cfg.reasoning_enabled THEN ReasoningBankRetrieve(bk) ELSE 0
        votes  == CollectVotes(outcomes, cfg)
        result == Aggregate(votes, cfg.rule, cfg.min_score, request_id)
        run    == HooksExecuted("PostEvaluate", hks.post_evaluate, {"Err"})
        judged == IF cfg.reasoning_enabled
                  THEN ReasoningBankJudge(bk, request_id, result).bank
                  ELSE bk
    IN  IF known_patterns > 0
        THEN Trace(Ok(EvaluationResultSuccess(request_id, 100)), {}, <<>>, FALSE, bk)
        ELSE Trace(Ok(result), DOMAIN votes, run, cfg.reasoning_enabled, judged)

\* ToolHandler::evaluate_internal
EvaluateInternal(request_id, outcomes, cfg, hks, bk) ==
    LET hook_result    == RunPreEvaluate(hks.pre_evaluate)
        pre_run        == HooksExecuted("PreEvaluate", hks.pre_evaluate, PreEvaluateStops)
        known_patterns == IF cfg.reasoning_enabled THEN ReasoningBankRetrieve(bk) ELSE 0
        votes          == CollectVotes(outcomes, cfg)
        result         == Aggregate(votes, cfg.rule, cfg.min_score, request_id)
        post_run       == HooksExecuted("PostEvaluate", hks.post_evaluate, {"Err"})
        consensus_run  == IF result.consensus_achieved
                          THEN HooksExecuted("OnConsensus", hks.on_consensus, {"Err"})
                          ELSE <<>>
        block_run      == IF result.decision = "Block"
                          THEN HooksExecuted("OnBlock", hks.on_block, {"Err"})
                          ELSE <<>>
        judged         == IF cfg.reasoning_enabled
                          THEN ReasoningBankJudge(bk, request_id, result).bank
                          ELSE bk
    IN  IF hook_result = "Err"
        THEN Trace(Err("hook"), {}, pre_run, FALSE, bk)
        ELSE IF hook_result = "Skip"
        THEN Trace(Ok(EvaluationResultSuccess(request_id, 100)), {}, pre_run, FALSE, bk)
        ELSE IF RunHooks(hks.post_evaluate) = "Err"
        THEN Trace(Err("hook"), DOMAIN votes, pre_run \o post_run, FALSE, bk)
        ELSE IF result.consensus_achieved /\ RunHooks(hks.on_consensus) = "Err"
        THEN Trace(Err("hook"), DOMAIN votes, pre_run \o post_run \o consensus_run,
                   FALSE, bk)
        ELSE IF result.decision = "Block" /\ RunHooks(hks.on_block) = "Err"
        THEN Trace(Err("hook"), DOMAIN votes,
                   pre_run \o post_run \o consensus_run \o block_run, FALSE, bk)
        ELSE Trace(Ok(result), DOMAIN votes,
                   pre_run \o post_run \o consensus_run \o block_run,
                   cfg.reasoning_enabled, judged)

\* Variant: Judge is called as soon as the consensus engine has answered,
\* before the PostEvaluate, OnConsensus and OnBlock hooks.
EvaluateInternalStepsJudgeFirst(request_id, outcomes, cfg, hks) ==
    LET StepsOf(run)   == [i \in 1..Len(run) |-> run[i].event]
        hook_result    == RunPreEvaluate(hks.pre_evaluate)
        pre            == StepsOf(HooksExecuted("PreEvaluate", hks.pre_evaluate,
                                                PreEvaluateStops))
        retrieve       == IF cfg.reasoning_enabled THEN <<"Retrieve">> ELSE <<>>
        result         == Aggregate(CollectVotes(outcomes, cfg), cfg.rule, cfg.min_score,
                                    request_id)
        judge          == IF cfg.reasoning_enabled THEN <<"Judge">> ELSE <<>>
        collected      == pre \o retrieve \o <<"CollectVotes", "Consensus">> \o judge
        post           == StepsOf(HooksExecuted("PostEvaluate", hks.post_evaluate, {"Err"}))
        on_consensus   == StepsOf(HooksExecuted("OnConsensus", hks.on_consensus, {"Err"}))
        on_block       == StepsOf(HooksExecuted("OnBlock", hks.on_block, {"Err"}))
        after_post     == IF result.consensus_achieved THEN on_consensus ELSE <<>>
        after_cons     == IF result.decision = "Block" THEN on_block ELSE <<>>
    IN  IF hook_result \in {"Err", "Skip"} THEN pre
        ELSE IF RunHooks(hks.post_evaluate) = "Err" THEN collected \o post
        ELSE IF result.consensus_achieved /\ RunHooks(hks.on_consensus) = "Err"
        THEN collected \o post \o after_post
        ELSE collected \o post \o after_post \o after_cons

\* The steps of ToolHandler::evaluate_internal in the order its statements
\* take them: one entry per hook executed, Retrieve and Judge when a bank is
\* configured, the join of the reviewers and the consensus engine; a hook
\* error (the `?` after a run_ call) and a Skip end the sequence.
EvaluateInternalSteps(request_id, outcomes, cfg, hks) ==
    LET StepsOf(run)   == [i \in 1..Len(run) |-> run[i].event]
        hook_result    == RunPreEvaluate(hks.pre_evaluate)
        pre            == StepsOf(HooksExecuted("PreEvaluate", hks.pre_evaluate,
                                                PreEvaluateStops))
        retrieve       == IF cfg.reasoning_enabled THEN <<"Retrieve">> ELSE <<>>
        result         == Aggregate(CollectVotes(outcomes, cfg), cfg.rule, cfg.min_score,
                                    request_id)
        collected      == pre \o retrieve \o <<"CollectVotes", "Consensus">>
        post           == StepsOf(HooksExecuted("PostEvaluate", hks.post_evaluate, {"Err"}))
        on_consensus   == StepsOf(HooksExecuted("OnConsensus", hks.on_consensus, {"Err"}))
        on_block       == StepsOf(HooksExecuted("OnBlock", hks.on_block, {"Err"}))
        judge          == IF cfg.reasoning_enabled THEN <<"Judge">> ELSE <<>>
        after_post     == IF result.consensus_achieved THEN on_consensus ELSE <<>>
        after_cons     == IF result.decision = "Block" THEN on_block ELSE <<>>
    IN  IF hook_result \in {"Err", "Skip"} THEN pre
        ELSE IF RunHooks(hks.post_evaluate) = "Err" THEN collected \o post
        ELSE IF result.consensus_achieved /\ RunHooks(hks.on_consensus) = "Err"
        THEN collected \o post \o after_post
        ELSE IF result.decision = "Block" /\ RunHooks(hks.on_block) = "Err"
        THEN collected \o post \o after_post \o after_cons
        ELSE collected \o post \o after_post \o after_cons \o judge

\* ToolResult::error
ToolResultError(message) == [is_error |-> TRUE, content |-> message]

\* ToolResult::success_json
ToolResultSuccessJson(value) == [is_error |-> FALSE, content |-> value]

\* ToolHandler::format_result
FormatResult(result) ==
    ToolResultSuccessJson(
        [request_id         |-> result.request_id,
         decision           |-> result.decision,
         score              |-> result.score,
         consensus_achieved |-> result.consensus_achieved,
         votes              |-> [r \in DOMAIN result.votes |->
                                    [vote  |-> result.votes[r].vote,
                                     score |-> result.votes[r].score]]])

\* ToolHandler::evaluate_request
EvaluateRequest(request_id, outcomes, cfg, hks, bk) ==
    LET r == EvaluateInternal(request_id, outcomes, cfg, hks, bk).ret
    IN  IF IsOk(r) THEN FormatResult(r.ok)
        ELSE ToolResultError("Evaluation failed")

\* HashMap::get(prev_id).copied().unwrap_or(false)
GetConfirmation(conf, id) ==
    IF id \in DOMAIN conf THEN conf[id] ELSE FALSE

\* Variant: an agreement, once recorded, is not taken back.
InsertConfirmationKeepsAgreement(conf, id, agreed) ==
    [k \in DOMAIN conf \cup {id} |->
        IF k = id THEN agreed \/ (id \in DOMAIN conf /\ conf[id]) ELSE conf[k]]

\* HashMap::insert
InsertConfirmation(conf, id, agreed) ==
    [k \in DOMAIN conf \cup {id} |-> IF k = id THEN agreed ELSE conf[k]]

\* Variant: certification does not look at the recorded confirmation.
FinalCheckResponseUnconfirmed(previous_request_id, previous_confirmed, eval_result, min_score) ==
    LET meets_requirements ==
            eval_result.consensus_achieved /\ eval_result.score >= min_score
        certified == meets_requirements
    IN  ToolResultSuccessJson(
            [certified           |-> certified,
             decision            |-> eval_result.decision,
             score               |-> eval_result.score,
             consensus_achieved  |-> eval_result.consensus_achieved,
             previous_request_id |-> previous_request_id,
             previous_confirmed  |-> previous_confirmed,
             certificate_id      |->
                 IF certified THEN Some(<<"TETRAD-", eval_result.request_id>>)
                 ELSE None])

\* ToolHandler::handle_final_check: the response to an evaluation that returned Ok
FinalCheckResponse(previous_request_id, previous_confirmed, eval_result, min_score) ==
    LET meets_requirements ==
            eval_result.consensus_achieved /\ eval_result.score >= min_score
        certified ==
            IF previous_request_id # None
            THEN meets_requirements /\ previous_confirmed
            ELSE meets_requirements
    IN  ToolResultSuccessJson(
            [certified           |-> certified,
             decision            |-> eval_result.decision,
             score               |-> eval_result.score,
             consensus_achieved  |-> eval_result.consensus_achieved,
             previous_request_id |-> previous_request_id,
             previous_confirmed  |-> previous_confirmed,
             certificate_id      |->
                 IF certified THEN Some(<<"TETRAD-", eval_result.request_id>>)
                 ELSE None])

\* What the reviewers can do when evaluated: an outcome for each enabled
\* reviewer, none for a disabled one (its adapter is not called).
OutcomesFor(cfg) ==
    {o \in [Reviewers -> ExecOutcomes \cup {NotRun}] :
        \A r \in Reviewers : (o[r] = NotRun) <=> (r \notin cfg.enabled)}

\* The trace of a tool call that runs no evaluation.
NoTrace == [invoked |-> {}, hooks_run |-> <<>>, judge_called |-> FALSE]

\* The trace of a tool call that ran the evaluation ev.
TraceOf(ev) ==
    [invoked |-> ev.invoked, hooks_run |-> ev.hooks_run, judge_called |-> ev.judge_called]

\* The id of the tools/call request whose response is followed.
CallId == Some([number |-> 1])

\* A tool call whose arguments do not deserialize, with the response
\* McpServer::handle_tools_call makes of its result.
InvalidParameters(tool) ==
    /\ tool_last' = [tool      |-> tool,
                     arguments |-> "invalid",
                     result    |-> ToolResultError("Invalid parameters"),
                     response  |-> ToolsCallResponse(CallId,
                                       ToolResultError("Invalid parameters")),
                     trace     |-> NoTrace]
    /\ UNCHANGED <<config, reviewers, confirmations, uuid_count, hooks, bank>>

\* tetrad_review_plan and tetrad_review_tests: evaluate_request on a new request
ReviewWith(tool, eval_type) ==
    \/ InvalidParameters(tool)
    \/ /\ uuid_count < MaxEvals
       /\ LET request_id == uuid_count + 1
              ev == EvaluateInternal(request_id, reviewers, config, hooks, bank)
          IN  /\ tool_last' = [tool      |-> tool,
                               arguments |-> [eval_type |-> eval_type],
                               eval      |-> ev.ret,
                               result    |-> EvaluateRequest(request_id, reviewers,
                                                             config, hooks, bank),
                               trace     |-> TraceOf(ev),
                               steps     |-> EvaluateInternalSteps(request_id, reviewers,
                                                                   config, hooks)]
              /\ bank' = ev.bank
       /\ uuid_count' = uuid_count + 1
       /\ UNCHANGED <<config, reviewers, confirmations, hooks>>

\* ToolHandler::handle_review_plan
HandleReviewPlan ==
    /\ ReviewWith("tetrad_review_plan", "Plan")
    /\ UNCHANGED othersOfTools

\* ToolHandler::handle_review_tests
HandleReviewTests ==
    /\ ReviewWith("tetrad_review_tests", "Tests")
    /\ UNCHANGED othersOfTools

\* ToolHandler::handle_confirm, called with parameters out of calls
ConfirmWith(calls) ==
    /\ \/ InvalidParameters("tetrad_confirm")
       \/ \E params \in calls :
             /\ confirmations' = InsertConfirmation(confirmations, params.request_id,
                                                    params.agreed)
             /\ tool_last' = [tool      |-> "tetrad_confirm",
                              arguments |-> params,
                              result    |-> ToolResultSuccessJson(
                                  [confirmed   |-> TRUE,
                                   request_id  |-> params.request_id,
                                   agreed      |-> params.agreed,
                                   can_proceed |-> params.agreed]),
                              trace     |-> NoTrace]
             /\ UNCHANGED <<config, reviewers, uuid_count, hooks, bank>>
    /\ UNCHANGED othersOfTools

\* ToolHandler::handle_confirm
HandleConfirm == ConfirmWith(ConfirmCalls)

\* Variant: a final check that answers from the cache when it holds an entry.
HandleFinalCheckFromCache ==
    /\ cache # <<>>
    /\ hits + misses < MaxGets
    /\ hits' = hits + 1
    /\ tool_last' = [tool      |-> "tetrad_final_check",
                     arguments |-> [previous_request_id |-> None],
                     eval      |-> Ok(cache[1].result),
                     result    |-> FinalCheckResponse(None, FALSE, cache[1].result,
                                                      config.min_score),
                     trace     |-> NoTrace]
    /\ UNCHANGED <<config, reviewers, confirmations, uuid_count, hooks, bank>>
    /\ UNCHANGED <<cache, misses, now, cache_last, latest_by_key, gets>>
    /\ UNCHANGED <<ruleVars, serverVars, bankVars, runVars, parseVars, hookVars, lockVars>>

\* ToolHandler::handle_final_check
HandleFinalCheck ==
    /\ \/ InvalidParameters("tetrad_final_check")
       \/ /\ uuid_count < MaxEvals
          /\ \E previous_request_id \in {None} \cup {Some(i) : i \in PreviousIds} :
                LET previous_confirmed ==
                        IF previous_request_id # None
                        THEN GetConfirmation(confirmations, previous_request_id.some)
                        ELSE FALSE
                    request_id == uuid_count + 1
                    ev == EvaluateInternal(request_id, reviewers, config, hooks, bank)
                    eval == ev.ret
                IN  /\ tool_last' =
                        [tool      |-> "tetrad_final_check",
                         arguments |-> [previous_request_id |-> previous_request_id],
                         eval      |-> eval,
                         result    |->
                             IF IsOk(eval)
                             THEN FinalCheckResponse(previous_request_id,
                                     previous_confirmed, eval.ok, config.min_score)
                             ELSE ToolResultError("Evaluation failed"),
                         trace     |-> TraceOf(ev),
                         steps     |-> EvaluateInternalSteps(request_id, reviewers,
                                                             config, hooks)]
                    /\ bank' = ev.bank
          /\ uuid_count' = uuid_count + 1
          /\ UNCHANGED <<config, reviewers, confirmations, hooks>>
    /\ UNCHANGED othersOfTools

\* ToolHandler::new under any configuration of reviewers and rule, on a
\* machine whose reviewer CLIs behave in any of the ways above.
InitTools ==
    /\ config \in Configs
    /\ reviewers \in OutcomesFor(config)
    /\ confirmations = <<>>
    /\ uuid_count = 0
    /\ tool_last = [tool |-> "none"]
    /\ hooks = HooksWithDefaults
    /\ bank = [failing |-> FALSE, patterns |-> 0, trajectories |-> {}]
    /\ RulesIdle
    /\ CacheIdle
    /\ ServerIdle
    /\ BankIdle
    /\ RunIdle
    /\ ParseIdle
    /\ LocksIdle
    /\ HooksIdle

NextTools ==
    \/ HandleReviewPlan
    \/ HandleReviewTests
    \/ HandleConfirm
    \/ HandleFinalCheck

SpecTools == InitTools /\ [][NextTools]_vars

(***************************************************************************)
(* SpecPipeline: every tool of the handler, tetrad_review_code and its      *)
(* cache included, under hooks and a reasoning bank of any behaviour        *)
(***************************************************************************)
\* The (code, language) pairs a client sends to tetrad_review_code.
ReviewInputs ==
    { <<<<"a">>, <<"b", "c">>, "Code">>,
      <<<<"b">>, <<"c">>, "Code">> }

ReviewArguments(t) == [code |-> t[1], language |-> t[2]]

\* ToolHandler::handle_review_code
HandleReviewCode ==
    /\ \/ /\ InvalidParameters("tetrad_review_code")
          /\ UNCHANGED <<cache, hits, misses, latest_by_key, gets>>
       \/ /\ hits + misses < MaxGets
          /\ \E t \in ReviewInputs :
                LET key        == KeyOf(t)
                    cap        == EffectiveCapacity(CacheCapacity)
                    got        == CacheGet(cache, hits, misses, key, CacheTtl, now)
                    request_id == uuid_count + 1
                    ev         == EvaluateInternal(request_id, reviewers, config, hooks, bank)
                    gone       == LruEvicted(got.cache, key, cap)
                IN  /\ gets' = gets + 1
                    /\ hits' = got.hits
                    /\ misses' = got.misses
                    /\ IF got.ret # None
                       THEN /\ cache' = got.cache
                            /\ tool_last' = [tool      |-> "tetrad_review_code",
                                             arguments |-> ReviewArguments(t),
                                             result    |-> FormatResult(got.ret.some),
                                             trace     |-> NoTrace,
                                             steps     |-> <<"CacheGet">>]
                            /\ UNCHANGED <<uuid_count, bank, latest_by_key>>
                       ELSE /\ uuid_count < MaxEvals
                            /\ uuid_count' = uuid_count + 1
                            /\ bank' = ev.bank
                            /\ tool_last' = [tool      |-> "tetrad_review_code",
                                             arguments |-> ReviewArguments(t),
                                             eval      |-> ev.ret,
                                             result    |->
                                                 IF IsOk(ev.ret) THEN FormatResult(ev.ret.ok)
                                                 ELSE ToolResultError("Evaluation failed"),
                                             trace     |-> TraceOf(ev),
                                             steps     |->
                                                 <<"CacheGet">>
                                                 \o EvaluateInternalSteps(request_id,
                                                        reviewers, config, hooks)
                                                 \o IF IsOk(ev.ret) THEN <<"CacheInsert">>
                                                    ELSE <<>>]
                            /\ IF IsOk(ev.ret)
                               THEN /\ cache' = CacheInsert(got.cache, key, ev.ret.ok, cap, now)
                                    /\ latest_by_key' = [k \in CacheKeys |->
                                          IF k = key
                                          THEN [value |-> ev.ret.ok, at |-> now, triple |-> t]
                                          ELSE IF k \in gone THEN NoEntry
                                          ELSE latest_by_key[k]]
                               ELSE /\ cache' = got.cache
                                    /\ UNCHANGED latest_by_key
          /\ UNCHANGED <<config, reviewers, confirmations, hooks>>
    /\ UNCHANGED <<now, cache_last>>
    /\ UNCHANGED <<ruleVars, serverVars, bankVars, runVars, parseVars, hookVars, lockVars>>

\* ToolHandler::handle_tool_call on a name that is none of the six tools
HandleUnknownTool ==
    /\ tool_last' = [tool      |-> "no_such_tool",
                     arguments |-> "valid",
                     result    |-> ToolResultError("Unknown tool"),
                     response  |-> ToolsCallResponse(CallId, ToolResultError("Unknown tool")),
                     trace     |-> NoTrace]
    /\ UNCHANGED <<config, reviewers, confirmations, uuid_count, hooks, bank>>
    /\ UNCHANGED othersOfTools

\* Time passes between two tool calls; the clock is followed from the first
\* cached entry on.
Elapse ==
    /\ cache # <<>>
    /\ now < MaxTime
    /\ now' = now + 1
    /\ UNCHANGED <<cache, hits, misses, cache_last, latest_by_key, gets>>
    /\ UNCHANGED othersOfCache

\* Reviewers as installed on the machines tried: all three passing, all three
\* failing, and two printing scores outside 0..100 beside one that passes.
PipelineReviewers ==
    { [r \in Reviewers |-> [kind |-> "verdict", vote |-> "Pass", score |-> 90]],
      [r \in Reviewers |-> [kind |-> "verdict", vote |-> "Fail", score |-> 60]],
      [r \in Reviewers |->
          CASE r = "Codex"  -> [kind |-> "json", vote |-> "pass", score |-> 200]
            [] r = "Gemini" -> [kind |-> "verdict", vote |-> "Pass", score |-> 90]
            [] r = "Qwen"   -> [kind |-> "json", vote |-> "PASS", score |-> 300]] }

\* Config with all reviewers and the default rule, the cache and the
\* reasoning bank switched either way.
PipelineConfigs ==
    [enabled : {Reviewers}, rule : {"strong"}, min_score : {DefaultMinScore},
     cache_enabled : BOOLEAN, reasoning_enabled : BOOLEAN]

\* The SQLite store found at db_path: empty or holding a pattern, and either
\* working or failing every statement.
Banks ==
    {[failing |-> FALSE, patterns |-> 0, trajectories |-> {}],
     [failing |-> FALSE, patterns |-> 1, trajectories |-> {}],
     [failing |-> TRUE,  patterns |-> 1, trajectories |-> {}]}

\* Hooks registered beside the default LoggingHook: one failing or skipping
\* hook on one event, with a hook registered after it, or a hook on every
\* event and none of them failing.
HookSets ==
    {[pre_evaluate  |-> <<"Continue">>, post_evaluate |-> <<"Continue">>,
      on_consensus  |-> <<"Continue">>, on_block |-> <<"Continue">>],
     [pre_evaluate  |-> <<"Continue", "Err", "Continue">>, post_evaluate |-> <<"Continue">>,
      on_consensus  |-> <<>>, on_block |-> <<>>],
     [pre_evaluate  |-> <<"Skip", "Err">>, post_evaluate |-> <<"Continue">>,
      on_consensus  |-> <<>>, on_block |-> <<>>],
     [pre_evaluate  |-> <<>>, post_evaluate |-> <<"Continue", "Err", "Continue">>,
      on_consensus  |-> <<"Continue">>, on_block |-> <<"Continue">>],
     [pre_evaluate  |-> <<>>, post_evaluate |-> <<"Continue">>,
      on_consensus  |-> <<"Err", "Continue">>, on_block |-> <<"Continue">>],
     [pre_evaluate  |-> <<>>, post_evaluate |-> <<"Continue">>,
      on_consensus  |-> <<"Continue">>, on_block |-> <<"Err", "Continue">>]}

\* ToolHandler::new: the default hooks under any bank for the passing
\* reviewers and under some banks for the others, or the cache switched off,
\* or added hooks with reviewers whose verdict makes the failing hook run.
InitPipeline ==
    /\ config \in PipelineConfigs
    /\ reviewers \in PipelineReviewers
    /\ bank \in Banks
    /\ hooks \in {HooksWithDefaults} \cup HookSets
    /\ hooks # HooksWithDefaults =>
          /\ config.cache_enabled /\ config.reasoning_enabled
          /\ bank = [failing |-> FALSE, patterns |-> 0, trajectories |-> {}]
          /\ reviewers["Codex"].kind = "verdict"
          /\ (reviewers["Codex"].vote = "Fail") <=> (RunHooks(hooks.on_block) = "Err")
    /\ ~config.cache_enabled =>
          /\ config.reasoning_enabled
          /\ bank = [failing |-> FALSE, patterns |-> 0, trajectories |-> {}]
          /\ reviewers["Codex"] = [kind |-> "verdict", vote |-> "Pass", score |-> 90]
    /\ ~config.reasoning_enabled => bank.patterns = 0 /\ ~bank.failing
    /\ reviewers["Codex"].kind = "json" => config.reasoning_enabled /\ bank.patterns = 1
    /\ (reviewers["Codex"].kind = "verdict" /\ reviewers["Codex"].vote = "Fail") =>
          config.reasoning_enabled /\ bank.patterns = 0
    /\ confirmations = <<>>
    /\ uuid_count = 0
    /\ tool_last = [tool |-> "none"]
    /\ CacheIdle
    /\ RulesIdle
    /\ ServerIdle
    /\ BankIdle
    /\ RunIdle
    /\ ParseIdle
    /\ LocksIdle
    /\ HooksIdle

NextPipeline ==
    \/ HandleReviewCode
    \/ HandleReviewPlan
    \/ HandleReviewTests
    \/ HandleConfirm
    \/ HandleFinalCheck
    \/ HandleUnknownTool
    \/ Elapse

SpecPipeline == InitPipeline /\ [][NextPipeline]_vars

(***************************************************************************)
(* SpecConfirm: confirmations of several requests, among the other tools,  *)
(* under the default configuration                                         *)
(***************************************************************************)
\* Request ids named in the tetrad_confirm calls tried.
ConfirmedIds == {1, 2, 3}

ConfirmCallsOnAll == [request_id : ConfirmedIds, agreed : BOOLEAN]

\* ToolHandler::handle_confirm
HandleConfirmOnAll == ConfirmWith(ConfirmCallsOnAll)

\* ToolHandler::new under Config::default(), with three reviewers that pass.
InitConfirm ==
    /\ config = [enabled |-> Reviewers, rule |-> "strong", min_score |-> DefaultMinScore,
                 cache_enabled |-> TRUE, reasoning_enabled |-> TRUE]
    /\ reviewers = [r \in Reviewers |-> [kind |-> "verdict", vote |-> "Pass", score |-> 90]]
    /\ hooks = HooksWithDefaults
    /\ bank = [failing |-> FALSE, patterns |-> 0, trajectories |-> {}]
    /\ confirmations = <<>>
    /\ uuid_count = 0
    /\ tool_last = [tool |-> "none"]
    /\ CacheIdle
    /\ RulesIdle
    /\ ServerIdle
    /\ BankIdle
    /\ RunIdle
    /\ ParseIdle
    /\ LocksIdle
    /\ HooksIdle

NextConfirm ==
    \/ HandleConfirmOnAll
    \/ HandleReviewCode
    \/ HandleReviewPlan
    \/ HandleReviewTests
    \/ HandleFinalCheck

SpecConfirm == InitConfirm /\ [][NextConfirm]_vars

(***************************************************************************)
(* Claims about the consensus rules (checked under SpecRules)              *)
(***************************************************************************)
Evaluated == out_result # NoResult

CountOf(kind) == Cardinality({k \in DOMAIN in_votes : in_votes[k].vote = kind})

\* The integer-floor mean of the scores of the voters in S: the m with
\* m * |S| <= sum < (m + 1) * |S|.
FloorMean(S) ==
    CHOOSE m \in 0..255 :
        /\ m * Cardinality(S) <= SumOver(in_votes, S)
        /\ SumOver(in_votes, S) < (m + 1) * Cardinality(S)

\* C5: under the Strong rule with three votes the decision is a function of the
\* (pass, warn, fail) counts and the floor-mean score: (3,0,0) gives Pass iff
\* the mean is >= min_score, (0,0,3) gives Block, everything else Revise; with
\* fewer than three votes the decision is Revise.
C5_StrongDecisionTable ==
    (Evaluated /\ out_result.rule = "strong") =>
        LET d == out_result.result.decision
            n == Cardinality(DOMAIN in_votes)
        IN  /\ n < 3 => d = "Revise"
            /\ n = 3 =>
                 d = IF CountOf("Pass") = 3
                        /\ FloorMean(DOMAIN in_votes) >= out_result.min_score
                     THEN "Pass"
                     ELSE IF CountOf("Fail") = 3 THEN "Block"
                     ELSE "Revise"

\* Three Pass votes whose mean reaches min_score although one score is below
\* it (Pass), and three Pass votes whose mean is below min_score (Revise).
C5_Witness ==
    /\ Evaluated /\ out_result.rule = "strong"
    /\ Cardinality(DOMAIN in_votes) = 3 /\ CountOf("Pass") = 3
    /\ \E k \in DOMAIN in_votes : in_votes[k].score < out_result.min_score
    /\ out_result.result.decision = "Pass"

\* C6: under the Golden rule fewer than 3 votes give Revise; otherwise all
\* votes Pass with every score >= min_score give Pass; otherwise any Fail
\* gives Block; otherwise Revise.  Changing one Pass vote to Fail never yields
\* Pass, and consensus_achieved holds exactly when the decision is Pass.
C6_GoldenDecision ==
    (Evaluated /\ out_result.rule = "golden") =>
        LET d   == out_result.result.decision
            n   == Cardinality(DOMAIN in_votes)
            min == out_result.min_score
        IN  /\ n < 3 => d = "Revise"
            /\ n >= 3 =>
                 d = IF CountOf("Pass") = n
                        /\ {k \in DOMAIN in_votes : in_votes[k].score < min} = {}
                     THEN "Pass"
                     ELSE IF CountOf("Fail") > 0 THEN "Block"
                     ELSE "Revise"
            /\ \A k \in DOMAIN in_votes :
                 in_votes[k].vote = "Pass" =>
                    GoldenEvaluate([in_votes EXCEPT ![k].vote = "Fail"], min) # "Pass"
            /\ out_result.result.consensus_achieved <=> (d = "Pass")

\* A unanimous Golden Pass, so that flipping one of its votes matters.
C6_Witness ==
    /\ Evaluated /\ out_result.rule = "golden"
    /\ Cardinality(DOMAIN in_votes) >= 3
    /\ out_result.result.decision = "Pass"
    /\ out_result.result.consensus_achieved

\* C7: under the Weak rule no votes give Block; otherwise at least 2 Pass votes
\* whose floor-mean score (over the Pass votes only) is >= min_score give Pass;
\* otherwise at least 2 Fail votes give Block; otherwise Revise.
C7_WeakDecision ==
    (Evaluated /\ out_result.rule = "weak") =>
        LET d      == out_result.result.decision
            passes == {k \in DOMAIN in_votes : in_votes[k].vote = "Pass"}
        IN  d = IF DOMAIN in_votes = {} THEN "Block"
                ELSE IF Cardinality(passes) >= 2
                        /\ FloorMean(passes) >= out_result.min_score
                     THEN "Pass"
                ELSE IF CountOf("Fail") >= 2 THEN "Block"
                ELSE "Revise"

\* 2 Pass + 1 Fail with the pass-mean below min_score: Revise, not Block.
C7_Witness ==
    /\ Evaluated /\ out_result.rule = "weak"
    /\ Cardinality(DOMAIN in_votes) = 3
    /\ CountOf("Pass") = 2 /\ CountOf("Fail") = 1
    /\ FloorMean({k \in DOMAIN in_votes : in_votes[k].vote = "Pass"})
          < out_result.min_score
    /\ out_result.result.decision = "Revise"
    /\ ~out_result.result.consensus_achieved

\* C8: for every rule, min_score and vote set of any size, a result with
\* consensus_achieved = true has decision Pass or Block, never Revise.
C8_ConsensusImpliesPassOrBlock ==
    Evaluated =>
        (out_result.result.consensus_achieved
            => out_result.result.decision \in {"Pass", "Block"})

\* Consensus reached on a vote set larger than the three reviewers.
C8_Witness ==
    /\ Evaluated
    /\ Cardinality(DOMAIN in_votes) > 3
    /\ out_result.result.consensus_achieved
    /\ out_result.rule = "strong"

(***************************************************************************)
(* Claims about the cache (checked under SpecCache)                        *)
(***************************************************************************)
\* A triple with its code whitespace-normalized.
NormTable == [t \in CacheTriples |-> <<NormalizeCode(t[1]), t[2], t[3]>>]

WithinTtl(e) == now - e.at <= CacheTtl

\* C4: get_by_code(code, lang, kind) returns Some(v) if and only if v is the
\* value of the latest insert_by_code for that triple (codes compared after
\* whitespace normalization), that insert happened within the last TTL, and
\* the entry has not since been displaced by LRU eviction or removed by
\* invalidate or clear.
C4_CachePurity ==
    cache_last.op = "get" =>
        LET t == cache_last.triple
            e == latest_by_key[KeyOf(t)]
        IN  cache_last.ret =
                IF e # NoEntry /\ NormTable[e.triple] = NormTable[t] /\ WithinTtl(e)
                THEN Some(e.value)
                ELSE None

\* The same statement per cache key instead of per triple: a get returns the
\* value of the latest insert under the same key, if within TTL and not
\* displaced or removed.
CachePurityPerKey ==
    cache_last.op = "get" =>
        LET e == latest_by_key[KeyOf(cache_last.triple)]
        IN  cache_last.ret =
                IF e # NoEntry /\ WithinTtl(e) THEN Some(e.value) ELSE None

(***************************************************************************)
(* Claims about the server loop (checked under SpecServer)                 *)
(***************************************************************************)
HasId(id) == id # None

\* The ids of the requests read so far that carry an id, oldest first.
IdsToAnswer == SelectSeq(ids_read, HasId)

\* The requests whose handling is complete: all of them between iterations,
\* all but the current one while it is dispatched or its response written.
IdsAnswered ==
    IF pc \in {"dispatch", "write"} /\ ~is_notification
    THEN SubSeq(IdsToAnswer, 1, Len(IdsToAnswer) - 1)
    ELSE IdsToAnswer

\* C1: every line that parses as a request with an id gets exactly one
\* response, with jsonrpc "2.0" and the same id, before the next request is
\* read; a request without an id gets none.  So at every point the responses
\* written are, in order, one per id-carrying request handled so far.
C1_OneResponsePerRequest ==
    /\ Len(stdout) = Len(IdsAnswered)
    /\ \A i \in 1..Len(stdout) :
          /\ stdout[i].jsonrpc = "2.0"
          /\ stdout[i].id = IdsAnswered[i]

\* A notification was dispatched (it set initialized: neither response is an
\* InitializeResult) without a response, and two requests with different kinds
\* of id, one of them answered by an error, got their responses.
C1_Witness ==
    /\ pc = "read"
    /\ ids_read = <<None, Some([number |-> 1]), Some([string |-> "a"])>>
    /\ initialized
    /\ Len(stdout) = 2
    /\ stdout[1].result # Some([value |-> "InitializeResult"])
    /\ stdout[2].error # None

\* C2: no single request failure terminates the server: after reading any
\* input other than end-of-input (a blank line, malformed JSON, truncated JSON,
\* an unknown method, a failing tool call) run keeps looping; only end-of-input
\* on stdin ends the loop.
C2_OnlyEndOfInputStops ==
    pc = "stopped" => last_read = "eof"

(***************************************************************************)
(* Claims about the tool handler (checked under SpecTools)                 *)
(***************************************************************************)
\* The last tool call ran an evaluation and the evaluation returned Ok.
EvaluationDone == "eval" \in DOMAIN tool_last /\ IsOk(tool_last.eval)

\* C3: for every tetrad_final_check, with meets_requirements =
\* consensus_achieved AND score >= min_score: when previous_request_id is given,
\* certified = meets_requirements AND an agreed=true confirmation is recorded
\* for that id; when it is absent, certified = meets_requirements; and a
\* certificate_id ("TETRAD-" followed by the evaluation's request id) is
\* present if and only if certified.
C3_FinalCheckCertification ==
    (tool_last.tool = "tetrad_final_check" /\ EvaluationDone) =>
        LET e      == tool_last.eval.ok
            out    == tool_last.result.content
            prev   == tool_last.arguments.previous_request_id
            meets  == e.consensus_achieved /\ e.score >= config.min_score
            agreed == /\ prev # None
                      /\ prev.some \in DOMAIN confirmations
                      /\ confirmations[prev.some] = TRUE
        IN  /\ ~tool_last.result.is_error
            /\ out.certified = (IF prev # None THEN meets /\ agreed ELSE meets)
            /\ out.certificate_id =
                  IF out.certified THEN Some(<<"TETRAD-", e.request_id>>) ELSE None
            /\ e.request_id = uuid_count

\* A final check that names a confirmed earlier request and is certified
\* under the id of its own evaluation.
C3_Witness ==
    /\ tool_last.tool = "tetrad_final_check" /\ EvaluationDone
    /\ tool_last.arguments.previous_request_id = Some(1)
    /\ 1 \in DOMAIN confirmations /\ confirmations[1] = TRUE
    /\ tool_last.result.content.certified
    /\ tool_last.result.content.certificate_id = Some(<<"TETRAD-", 2>>)

\* The vote a reviewer is represented by, read off what its CLI did.
ExpectedVote(r) ==
    IF reviewers[r].kind = "verdict"
    THEN [executor |-> r, vote |-> reviewers[r].vote, score |-> reviewers[r].score]
    ELSE [executor |-> r, vote |-> "Warn", score |-> 50]

\* C9: in every evaluation the vote map handed to the consensus engine has
\* exactly one entry per enabled reviewer and none for a disabled one; a
\* reviewer whose evaluate returns an error is represented by a Warn vote with
\* score 50, and each reviewer's vote depends on that reviewer alone.
C9_OneVotePerEnabledReviewer ==
    EvaluationDone =>
        LET votes == tool_last.eval.ok.votes
        IN  /\ DOMAIN votes = config.enabled
            /\ \A r \in config.enabled : votes[r] = ExpectedVote(r)

\* Gemini is disabled, Codex's evaluate fails and Qwen votes Pass: two votes,
\* Codex's the neutral one, Qwen's its own.
C9_Witness ==
    /\ EvaluationDone
    /\ config.enabled = {"Codex", "Qwen"}
    /\ reviewers["Codex"].kind = "unparseable"
    /\ reviewers["Qwen"] = [kind |-> "verdict", vote |-> "Pass", score |-> 90]
    /\ DOMAIN tool_last.eval.ok.votes = {"Codex", "Qwen"}
    /\ tool_last.eval.ok.votes["Codex"].vote = "Warn"

TimedOut == {r \in config.enabled : reviewers[r].kind = "timeout"}

Stored(t) ==
    LET e == latest_by_key[KeyOf(t)]
    IN  e # NoEntry /\ e.triple = t /\ WithinTtl(e)

\* The step is a tetrad_review_code call for t that reached the cache lookup.
ReviewCodeCall(t) ==
    /\ hits' + misses' = hits + misses + 1
    /\ tool_last'.tool = "tetrad_review_code"
    /\ tool_last'.arguments = ReviewArguments(t)

\* C11: a tetrad_review_code call for a (code, language) whose entry is live
\* in the cache invokes no reviewer, runs no hook, records no trajectory and
\* draws no request id; it returns the stored result (same request_id,
\* decision and score) and counts one hit.  A first call on an empty cache
\* counts one miss and, when its evaluation succeeds, leaves the entry live,
\* so that two identical calls in a row leave hits = 1 and misses = 1.
C11_CacheHitServesStoredResult ==
    [][\A t \in ReviewInputs : ReviewCodeCall(t) =>
          /\ Stored(t) =>
                LET stored == latest_by_key[KeyOf(t)].value
                    shown  == tool_last'.result
                IN  /\ tool_last'.trace = NoTrace
                    /\ bank' = bank
                    /\ uuid_count' = uuid_count
                    /\ ~shown.is_error
                    /\ shown.content.request_id = stored.request_id
                    /\ shown.content.decision = stored.decision
                    /\ shown.content.score = stored.score
                    /\ hits' = hits + 1
                    /\ misses' = misses
          /\ (cache = <<>> /\ hits = 0 /\ misses = 0) =>
                /\ hits' = 0
                /\ misses' = 1
                /\ ~tool_last'.result.is_error => Stored(t)']_vars

\* The second of two identical calls: one miss, one hit, one request id drawn,
\* one trajectory recorded, and the result of request 1 returned again.
C11_Witness ==
    /\ hits = 1 /\ misses = 1
    /\ uuid_count = 1
    /\ bank.trajectories = {1}
    /\ tool_last.tool = "tetrad_review_code"
    /\ ~tool_last.result.is_error
    /\ tool_last.trace = NoTrace
    /\ tool_last.result.content.request_id = 1

\* The tools other than tetrad_review_code and tetrad_status.
UncachedTools ==
    {"tetrad_review_plan", "tetrad_review_tests", "tetrad_confirm", "tetrad_final_check"}

\* C12: tetrad_review_plan, tetrad_review_tests, tetrad_confirm and
\* tetrad_final_check neither read nor write the cache: the entries, their
\* order and the hit and miss counters are unchanged by them.  A
\* tetrad_final_check runs a new evaluation whatever the cache holds: it draws
\* a request id and, unless a PreEvaluate hook ends the evaluation, invokes
\* every enabled reviewer.
C12_OnlyReviewCodeUsesCache ==
    [][/\ tool_last'.tool \in UncachedTools => UNCHANGED <<cache, hits, misses>>
       /\ ( /\ now' = now
            /\ tool_last'.tool = "tetrad_final_check"
            /\ "eval" \in DOMAIN tool_last' ) =>
              /\ uuid_count' = uuid_count + 1
              /\ RunPreEvaluate(hooks.pre_evaluate) = "Continue" =>
                    tool_last'.trace.invoked = config.enabled]_vars

\* A final check made while the result of a tetrad_review_code call is cached:
\* the reviewers are invoked again and the cache still shows one miss, no hit.
C12_Witness ==
    /\ tool_last.tool = "tetrad_final_check"
    /\ "eval" \in DOMAIN tool_last
    /\ Len(cache) = 1 /\ cache[1].result.request_id = 1
    /\ hits = 0 /\ misses = 1
    /\ uuid_count = 2
    /\ tool_last.trace.invoked = Reviewers

\* C13: with cache.enabled = false, tetrad_review_code never stores a result
\* in the cache and never serves one from it: every call that reaches the
\* evaluation, a repeat of the same code included, invokes the enabled
\* reviewers.
C13_DisabledCacheBypassed ==
    ~config.cache_enabled =>
        /\ cache = <<>>
        /\ hits = 0
        /\ (tool_last.tool = "tetrad_review_code" /\ ~tool_last.result.is_error) =>
              tool_last.trace.invoked = config.enabled

(***************************************************************************)
(* Further claims about the server loop (checked under SpecServer)         *)
(***************************************************************************)
PARSE_ERROR == 0 - 32700

INVALID_REQUEST == 0 - 32600

\* The input lines that are not a JSON-RPC request: text that is not JSON,
\* JSON cut short, and JSON of another shape.
BadFraming == {"malformed", "truncated", "json_string"}

\* C14: a line with invalid JSON-RPC framing is answered with a JSON-RPC error
\* response carrying -32700 or -32600, and the server goes on to read the
\* next line.
C14_BadFramingAnswered ==
    last_read \in BadFraming =>
        /\ pc = "read"
        /\ stdout # <<>>
        /\ stdout[Len(stdout)].error \in {Some(PARSE_ERROR), Some(INVALID_REQUEST)}

(***************************************************************************)
(* Further claims about the whole tool handler (checked under SpecPipeline)*)
(***************************************************************************)
\* The call was refused before any evaluation: its tool is unknown or its
\* arguments do not deserialize.
Refused(call) ==
    /\ call.tool # "none"
    /\ "eval" \notin DOMAIN call
    /\ call.result.is_error

\* C15: a tools/call that names an unknown tool, or whose arguments do not
\* deserialize, is answered with a JSON-RPC success response (no error member)
\* whose result is a ToolResult with is_error set and one text; it invokes no
\* reviewer, runs no hook, and leaves the cache, its counters, the
\* confirmations, the reasoning bank and the request ids drawn unchanged.
C15_RefusedCallIsToolError ==
    [][Refused(tool_last') =>
          /\ tool_last'.result.content \in {"Invalid parameters", "Unknown tool"}
          /\ tool_last'.response.error = None
          /\ tool_last'.response.result = Some(tool_last'.result)
          /\ tool_last'.response.id = CallId
          /\ tool_last'.trace = NoTrace
          /\ UNCHANGED <<cache, hits, misses, confirmations, bank, uuid_count>>]_vars

\* An unknown tool called after a review was cached and confirmed: the cache,
\* the confirmation and the trajectory are all still there.
C15_Witness ==
    /\ tool_last.tool = "no_such_tool"
    /\ tool_last.response.error = None
    /\ tool_last.response.result.some.is_error
    /\ Len(cache) = 1
    /\ confirmations # <<>>
    /\ bank.trajectories = {1}

\* The positions of a hook trace at which a hook returned an error.
Failures(run) == {i \in 1..Len(run) : run[i].result = "Err"}

\* The entries of a cache, whatever their order.
Entries(c) == {c[i] : i \in 1..Len(c)}

\* C16: when a PreEvaluate, PostEvaluate, OnConsensus or OnBlock hook returns
\* an error, the evaluation fails: the failing hook is the last hook executed
\* in that call, judge is not called and the bank is left as it was, no entry
\* is added to the cache, and the tool call returns a ToolResult with is_error.
C16_HookErrorFailsEvaluation ==
    [][( /\ now' = now
         /\ "eval" \in DOMAIN tool_last'
         /\ Failures(tool_last'.trace.hooks_run) # {} ) =>
            LET run == tool_last'.trace.hooks_run
            IN  /\ Failures(run) = {Len(run)}
                /\ ~tool_last'.trace.judge_called
                /\ bank' = bank
                /\ Entries(cache') \subseteq Entries(cache)
                /\ ~IsOk(tool_last'.eval)
                /\ tool_last'.result.is_error]_vars

\* A tetrad_review_code call whose second PostEvaluate hook fails: the
\* reviewers were invoked, the third hook did not run, nothing is cached.
C16_Witness ==
    /\ tool_last.tool = "tetrad_review_code"
    /\ "eval" \in DOMAIN tool_last
    /\ ~IsOk(tool_last.eval)
    /\ tool_last.trace.invoked = Reviewers
    /\ Len(tool_last.trace.hooks_run) = 2
    /\ tool_last.trace.hooks_run[2] = [event |-> "PostEvaluate", hook |-> 2, result |-> "Err"]
    /\ Len(hooks.post_evaluate) = 3
    /\ cache = <<>> /\ misses = 1
    /\ bank.trajectories = {}

\* C17: a reasoning bank that fails in retrieve or in judge does not fail the
\* tool call: the evaluation returns Ok, the tool result is not an error and
\* carries the decision and score of the evaluation, judge was attempted and
\* recorded nothing, and a tetrad_review_code call still puts its result at
\* the front of the cache under the key of its code and language.
C17_BankFailureSwallowed ==
    (config.reasoning_enabled /\ bank.failing /\ "eval" \in DOMAIN tool_last) =>
        /\ IsOk(tool_last.eval)
        /\ ~tool_last.result.is_error
        /\ tool_last.result.content.decision = tool_last.eval.ok.decision
        /\ tool_last.result.content.score = tool_last.eval.ok.score
        /\ tool_last.trace.invoked = config.enabled
        /\ tool_last.trace.judge_called
        /\ bank.trajectories = {}
        /\ tool_last.tool = "tetrad_review_code" =>
              /\ cache # <<>>
              /\ cache[1].result = tool_last.eval.ok
              /\ cache[1].key = CacheKey(tool_last.arguments.code,
                                         tool_last.arguments.language, "Code")

\* A tetrad_review_code call on a failing bank: the reviewers' consensus is
\* returned and cached, and no trajectory was recorded.
C17_Witness ==
    /\ config.reasoning_enabled /\ bank.failing
    /\ tool_last.tool = "tetrad_review_code"
    /\ "eval" \in DOMAIN tool_last
    /\ ~tool_last.result.is_error
    /\ tool_last.result.content.decision = "Pass"
    /\ Len(cache) = 1 /\ cache[1].result.request_id = 1
    /\ bank.trajectories = {}

\* The banks an evaluation could have met: each store, holding nothing or the
\* patterns and trajectories of every earlier evaluation.
AnyBank ==
    {[failing |-> b.failing, patterns |-> n, trajectories |-> t] :
        b \in Banks, n \in {0, MaxEvals}, t \in {{}, 1..MaxEvals}}

\* C18: the outcome of an evaluation does not depend on the reasoning bank:
\* run with the same request id, reviewers, rule and hooks, with the bank
\* enabled or not, working or not, and whatever patterns and trajectories it
\* holds, the evaluation returns the same value (decision, score,
\* consensus_achieved, votes) and invokes the same reviewers.
C18_BankDoesNotInfluenceOutcome ==
    "eval" \in DOMAIN tool_last =>
        \A bk \in AnyBank, enabled \in BOOLEAN :
            LET request_id == uuid_count
                cfg        == [config EXCEPT !.reasoning_enabled = enabled]
                other      == EvaluateInternal(request_id, reviewers, cfg, hooks, bk)
            IN  /\ IsOk(other.ret) = IsOk(tool_last.eval)
                /\ IsOk(other.ret) => other.ret.ok = tool_last.eval.ok
                /\ other.invoked = tool_last.trace.invoked

\* The second evaluation of a behaviour, run on a bank that by then holds a
\* pattern and a trajectory of the first.
C18_Witness ==
    /\ "eval" \in DOMAIN tool_last
    /\ IsOk(tool_last.eval)
    /\ tool_last.eval.ok.request_id = 2
    /\ config.reasoning_enabled
    /\ bank.trajectories = {1, 2}
    /\ bank.patterns >= 2
    /\ tool_last.trace.invoked = Reviewers

(***************************************************************************)
(* Claims about the confirmations (checked under SpecConfirm)              *)
(***************************************************************************)
\* C19: a tetrad_confirm call sets confirmations[request_id] to its agreed
\* flag, whatever was recorded before (agreed = false after agreed = true
\* leaves false), leaves the entries of all other ids as they were, and
\* returns can_proceed = agreed; no other tool changes the confirmations.
\* Hence confirmations[id] is always the flag of the latest confirm for id.
C19_ConfirmationsFollowLatestConfirm ==
    [][IF tool_last'.tool = "tetrad_confirm" /\ ~tool_last'.result.is_error
       THEN LET params == tool_last'.arguments
            IN  /\ params.request_id \in DOMAIN confirmations'
                /\ confirmations'[params.request_id] = params.agreed
                /\ tool_last'.result.content.can_proceed = params.agreed
                /\ DOMAIN confirmations' = DOMAIN confirmations \cup {params.request_id}
                /\ \A id \in DOMAIN confirmations :
                      id # params.request_id => confirmations'[id] = confirmations[id]
       ELSE confirmations' = confirmations]_vars

\* Request 1 was agreed to, then request 2, then the agreement to request 1
\* was taken back: the entry of 1 is false, that of 2 still true.
C19_Witness ==
    /\ tool_last.tool = "tetrad_confirm"
    /\ ~tool_last.result.is_error
    /\ tool_last.arguments = [request_id |-> 1, agreed |-> FALSE]
    /\ DOMAIN confirmations = {1, 2}
    /\ confirmations[1] = FALSE
    /\ confirmations[2] = TRUE
    /\ uuid_count = 2

(***************************************************************************)
(* Claims about the scores (checked under SpecPipeline)                    *)
(***************************************************************************)
\* C20: whatever the reviewers print, every vote handed to the consensus
\* engine has a score in 0..100, and so has every evaluation result.
C20_ScoresWithinRange ==
    ("eval" \in DOMAIN tool_last /\ IsOk(tool_last.eval)) =>
        LET result == tool_last.eval.ok
        IN  /\ \A r \in DOMAIN result.votes : result.votes[r].score \in 0..100
            /\ result.score \in 0..100

\* C21: a value inserted with insert_by_code(code, lang, kind) is never
\* returned by get_by_code(code', lang', kind') when the whitespace-normalized
\* code, the language or the evaluation kind differs: a get that returns a
\* value was asked for the normalized triple that value was inserted under.
C21_DistinctTriplesNeverShare ==
    (cache_last.op = "get" /\ cache_last.ret # None) =>
        LET e == latest_by_key[KeyOf(cache_last.triple)]
        IN  /\ e # NoEntry
            /\ NormTable[e.triple] = NormTable[cache_last.triple]

\* The keys of the cache, most recently used first.
RecencyOrder(c) == [i \in 1..Len(c) |-> c[i].key]

\* A key sequence with one key taken out, the rest in their order.
WithoutKey(ks, key) == SelectSeq(ks, LAMBDA k : k # key)

\* ks2 is ks with some keys taken out, the rest in their order.
KeepsOrder(ks, ks2) ==
    ks2 = SelectSeq(ks, LAMBDA k : \E i \in 1..Len(ks2) : ks2[i] = k)

MaxJudges == 2

MaxBankTime == 31

\* Config default of max_loops, against which judge measures loops_to_consensus.
DefaultMaxLoops == 3

\* prune_low_quality_patterns: datetime('now', '-30 days')
PruneAge == 30

\* prune_low_quality_patterns: (success_count + failure_count) < 3
PruneMaxCount == 3

\* reinforce_high_value_patterns: (success_count + failure_count) > 10
ReinforceMinCount == 10

\* PatternMatcher::compute_signature of the codes judged.
Signatures == {"s1"}

\* Finding.category of the findings reviewers report.
Categories == {"logic", "style"}

\* EvaluationResult.findings, by category.
FindingLists == {<<>>, <<"logic">>, <<"logic", "style">>}

RECURSIVE GCD(_, _)
GCD(a, b) == IF b = 0 THEN a ELSE GCD(b, a % b)

\* SQLite REAL division; a division by zero gives NULL.
Null == [num |-> 0, den |-> 0]

Real(n, d) ==
    IF d = 0 THEN Null ELSE [num |-> n \div GCD(n, d), den |-> d \div GCD(n, d)]

\* Comparisons of REAL values; any comparison with NULL is not true.
RealLess(a, b) == a.num * b.den < b.num * a.den

RealMin(a, b) == IF a = Null \/ b = Null THEN Null ELSE IF RealLess(b, a) THEN b ELSE a

RealTimes(a, b) == IF a = Null \/ b = Null THEN Null ELSE Real(a.num * b.num, a.den * b.den)

SameKey(row, signature, category) ==
    row.code_signature = signature /\ row.issue_category = category

\* ReasoningBank::pattern_exists
PatternExists(rows, signature, category) ==
    \E i \in 1..Len(rows) : SameKey(rows[i], signature, category)

\* ReasoningBank::save_trajectory
SaveTrajectory(trajs, request_id, code_hash, was_successful) ==
    Append(trajs, [request_id |-> request_id, code_hash |-> code_hash,
                   was_successful |-> was_successful])

\* Variant: every finding opens a row of its own.
UpdateOrCreatePatternAlwaysCreates(rows, signature, category, was_successful, t) ==
    [rows |-> Append(rows,
                [pattern_type   |-> IF was_successful THEN "ambiguous" ELSE "anti_pattern",
                 code_signature |-> signature,
                 issue_category |-> category,
                 success_count  |-> IF was_successful THEN 1 ELSE 0,
                 failure_count  |-> IF was_successful THEN 0 ELSE 1,
                 confidence     |-> Real(1, 2),
                 last_seen      |-> t,
                 created_at     |-> t]),
     created |-> TRUE]

\* ReasoningBank::update_or_create_pattern: [rows, created]. The UPDATE reads
\* the counts of the row as they were before it.
UpdateOrCreatePattern(rows, signature, category, was_successful, t) ==
    IF PatternExists(rows, signature, category)
    THEN [rows |-> [i \in 1..Len(rows) |->
                      IF SameKey(rows[i], signature, category)
                      THEN [rows[i] EXCEPT
                              !.success_count = @ + (IF was_successful THEN 1 ELSE 0),
                              !.failure_count = @ + (IF was_successful THEN 0 ELSE 1),
                              !.last_seen = t,
                              !.confidence =
                                  Real(rows[i].success_count
                                          + (IF was_successful THEN 1 ELSE 0),
                                       rows[i].success_count + rows[i].failure_count + 1)]
                      ELSE rows[i]],
          created |-> FALSE]
    ELSE [rows |-> Append(rows,
                [pattern_type   |-> IF was_successful THEN "ambiguous" ELSE "anti_pattern",
                 code_signature |-> signature,
                 issue_category |-> category,
                 success_count  |-> IF was_successful THEN 1 ELSE 0,
                 failure_count  |-> IF was_successful THEN 0 ELSE 1,
                 confidence     |-> Real(1, 2),
                 last_seen      |-> t,
                 created_at     |-> t]),
          created |-> TRUE]

\* ReasoningBank::register_good_pattern
RegisterGoodPattern(rows, signature, t) ==
    IF PatternExists(rows, signature, "success")
    THEN [i \in 1..Len(rows) |->
            IF SameKey(rows[i], signature, "success")
            THEN [rows[i] EXCEPT
                    !.success_count = @ + 1,
                    !.pattern_type = "good_pattern",
                    !.last_seen = t,
                    !.confidence = Real(rows[i].success_count + 1,
                                        rows[i].success_count + rows[i].failure_count + 1)]
            ELSE rows[i]]
    ELSE Append(rows,
            [pattern_type   |-> "good_pattern",
             code_signature |-> signature,
             issue_category |-> "success",
             success_count  |-> 1,
             failure_count  |-> 0,
             confidence     |-> Real(1, 1),
             last_seen      |-> t,
             created_at     |-> t])

\* The loop of judge over result.findings: [rows, updated, created]
RECURSIVE JudgeFindings(_, _, _, _, _)
JudgeFindings(rows, signature, findings, was_successful, t) ==
    IF findings = <<>> THEN [rows |-> rows, updated |-> 0, created |-> 0]
    ELSE LET one  == UpdateOrCreatePattern(rows, signature, Head(findings), was_successful, t)
             rest == JudgeFindings(one.rows, signature, Tail(findings), was_successful, t)
         IN  [rows    |-> rest.rows,
              updated |-> rest.updated + (IF one.created THEN 0 ELSE 1),
              created |-> rest.created + (IF one.created THEN 1 ELSE 0)]

\* ReasoningBank::judge: [patterns, trajectories, ret]
Judge(rows, trajs, request_id, signature, findings, consensus_achieved, loops, max_loops, t) ==
    LET was_successful == consensus_achieved /\ loops <= max_loops
        each == JudgeFindings(rows, signature, findings, was_successful, t)
        good == findings = <<>> /\ was_successful
    IN  [patterns     |-> IF good THEN RegisterGoodPattern(each.rows, signature, t)
                          ELSE each.rows,
         trajectories |-> SaveTrajectory(trajs, request_id, signature, was_successful),
         ret |-> [was_successful       |-> was_successful,
                  patterns_updated     |-> each.updated,
                  new_patterns_created |-> each.created + (IF good THEN 1 ELSE 0)]]

\* merge_similar_patterns: each row takes the counts of the later rows with
\* its (code_signature, issue_category) and those rows are deleted; one merge
\* per pair. UNIQUE(code_signature, issue_category) leaves no such pair.
DuplicatePairs(rows) ==
    {pr \in (1..Len(rows)) \X (1..Len(rows)) :
        /\ pr[1] < pr[2]
        /\ SameKey(rows[pr[2]], rows[pr[1]].code_signature, rows[pr[1]].issue_category)}

RECURSIVE SumCount(_, _, _)
SumCount(rows, idx, field) ==
    IF idx = {} THEN 0
    ELSE LET i == CHOOSE i \in idx : TRUE
         IN  rows[i][field] + SumCount(rows, idx \ {i}, field)

MergeSimilarPatterns(rows) ==
    LET dups    == DuplicatePairs(rows)
        removed == {pr[2] : pr \in dups}
        later(i) == {pr[2] : pr \in {q \in dups : q[1] = i}}
        summed  == [i \in 1..Len(rows) |->
                      [rows[i] EXCEPT
                         !.success_count = @ + SumCount(rows, later(i), "success_count"),
                         !.failure_count = @ + SumCount(rows, later(i), "failure_count")]]
        kept    == {i \in 1..Len(rows) : i \notin removed}
        RECURSIVE Keep(_)
        Keep(i) == IF i > Len(rows) THEN <<>>
                   ELSE (IF i \in kept THEN <<summed[i]>> ELSE <<>>) \o Keep(i + 1)
    IN  [rows |-> Keep(1), merged |-> Cardinality(dups)]

\* The WHERE clause of prune_low_quality_patterns
IsLowQuality(row, t) ==
    /\ RealLess(row.confidence, Real(3, 10))
    /\ row.success_count + row.failure_count < PruneMaxCount
    /\ row.created_at < t - PruneAge

\* ReasoningBank::prune_low_quality_patterns
PruneLowQualityPatterns(rows, t) ==
    LET keep(row) == ~IsLowQuality(row, t)
        left == SelectSeq(rows, keep)
    IN  [rows |-> left, pruned |-> Len(rows) - Len(left)]

\* The WHERE clause of reinforce_high_value_patterns
IsHighValue(row) ==
    /\ row.success_count + row.failure_count > ReinforceMinCount
    /\ RealLess(Real(7, 10), row.confidence)

\* ReasoningBank::reinforce_high_value_patterns
ReinforceHighValuePatterns(rows) ==
    [rows |-> [i \in 1..Len(rows) |->
                 IF IsHighValue(rows[i])
                 THEN [rows[i] EXCEPT
                         !.confidence = RealMin(RealTimes(@, Real(105, 100)), Real(1, 1))]
                 ELSE rows[i]],
     reinforced |-> Cardinality({i \in 1..Len(rows) : IsHighValue(rows[i])})]

\* The CASE of recalculate_all_confidences for pattern_type:
\* count / (success_count + failure_count + 0.001) > 0.8
MostlyOf(count, row) ==
    10000 * count > 8 * (1000 * (row.success_count + row.failure_count) + 1)

\* ReasoningBank::recalculate_all_confidences
RecalculateAllConfidences(rows) ==
    [i \in 1..Len(rows) |->
        [rows[i] EXCEPT
           !.confidence =
               IF rows[i].success_count + rows[i].failure_count = 0 THEN Real(1, 2)
               ELSE Real(rows[i].success_count,
                         rows[i].success_count + rows[i].failure_count),
           !.pattern_type =
               IF MostlyOf(rows[i].success_count, rows[i]) THEN "good_pattern"
               ELSE IF MostlyOf(rows[i].failure_count, rows[i]) THEN "anti_pattern"
               ELSE "ambiguous"]]

\* ReasoningBank::consolidate: [patterns, ret]
Consolidate(rows, t) ==
    LET merged     == MergeSimilarPatterns(rows)
        pruned     == PruneLowQualityPatterns(merged.rows, t)
        reinforced == ReinforceHighValuePatterns(pruned.rows)
    IN  [patterns |-> RecalculateAllConfidences(reinforced.rows),
         ret |-> [patterns_merged     |-> merged.merged,
                  patterns_pruned     |-> pruned.pruned,
                  patterns_reinforced |-> reinforced.reinforced]]

\* ReasoningBank::insert_pattern: the row is the file's pattern, id aside.
InsertPattern(rows, pattern) == Append(rows, pattern)

\* Variant: an existing row is merged only when the file's row has more data.
MergeImportedPatternByCountOnly(rows, pattern) ==
    LET i == CHOOSE i \in 1..Len(rows) :
                 SameKey(rows[i], pattern.code_signature, pattern.issue_category)
    IN  IF pattern.success_count + pattern.failure_count
              > rows[i].success_count + rows[i].failure_count
        THEN [rows |-> [rows EXCEPT ![i] =
                  [@ EXCEPT
                     !.success_count = @ + pattern.success_count,
                     !.failure_count = @ + pattern.failure_count,
                     !.last_seen = IF pattern.last_seen > @ THEN pattern.last_seen ELSE @,
                     !.confidence =
                         Real(rows[i].success_count + pattern.success_count,
                              rows[i].success_count + rows[i].failure_count
                                 + pattern.success_count + pattern.failure_count)]],
              merged |-> TRUE]
        ELSE [rows |-> rows, merged |-> FALSE]

\* Variant: a row of the file that is as recent as the existing row is merged.
MergeImportedPatternWhenNotOlder(rows, pattern) ==
    LET i == CHOOSE i \in 1..Len(rows) :
                 SameKey(rows[i], pattern.code_signature, pattern.issue_category)
        existing_total == rows[i].success_count + rows[i].failure_count
        imported_total == pattern.success_count + pattern.failure_count
        should_merge   == \/ imported_total > existing_total
                          \/ pattern.last_seen >= rows[i].last_seen
    IN  IF should_merge
        THEN [rows |-> [rows EXCEPT ![i] =
                  [@ EXCEPT
                     !.success_count = @ + pattern.success_count,
                     !.failure_count = @ + pattern.failure_count,
                     !.last_seen = IF pattern.last_seen > @ THEN pattern.last_seen ELSE @,
                     !.confidence =
                         Real(rows[i].success_count + pattern.success_count,
                              rows[i].success_count + rows[i].failure_count
                                 + pattern.success_count + pattern.failure_count)]],
              merged |-> TRUE]
        ELSE [rows |-> rows, merged |-> FALSE]

\* ReasoningBank::merge_imported_pattern, called when the row exists:
\* [rows, merged]. RFC 3339 strings of UTC times compare as the times do.
MergeImportedPattern(rows, pattern) ==
    LET i == CHOOSE i \in 1..Len(rows) :
                 SameKey(rows[i], pattern.code_signature, pattern.issue_category)
        existing_total == rows[i].success_count + rows[i].failure_count
        imported_total == pattern.success_count + pattern.failure_count
        should_merge   == \/ imported_total > existing_total
                          \/ pattern.last_seen > rows[i].last_seen
    IN  IF should_merge
        THEN [rows |-> [rows EXCEPT ![i] =
                  [@ EXCEPT
                     !.success_count = @ + pattern.success_count,
                     !.failure_count = @ + pattern.failure_count,
                     !.last_seen = IF pattern.last_seen > @ THEN pattern.last_seen ELSE @,
                     !.confidence =
                         Real(rows[i].success_count + pattern.success_count,
                              rows[i].success_count + rows[i].failure_count
                                 + pattern.success_count + pattern.failure_count)]],
              merged |-> TRUE]
        ELSE [rows |-> rows, merged |-> FALSE]

\* ReasoningBank::import, the file already read and parsed: [patterns, ret]
RECURSIVE Import(_, _)
Import(rows, file) ==
    IF file = <<>>
    THEN [patterns |-> rows, ret |-> [imported |-> 0, skipped |-> 0, merged |-> 0]]
    ELSE LET pattern == Head(file)
             exists  == PatternExists(rows, pattern.code_signature, pattern.issue_category)
             merge   == IF exists THEN MergeImportedPattern(rows, pattern)
                        ELSE [rows |-> InsertPattern(rows, pattern), merged |-> FALSE]
             rest    == Import(merge.rows, Tail(file))
         IN  [patterns |-> rest.patterns,
              ret |-> [imported |-> rest.ret.imported + (IF exists THEN 0 ELSE 1),
                       skipped  |-> rest.ret.skipped
                                       + (IF exists /\ ~merge.merged THEN 1 ELSE 0),
                       merged   |-> rest.ret.merged
                                       + (IF exists /\ merge.merged THEN 1 ELSE 0)]]

(***************************************************************************)
(* SpecBank: a fresh ReasoningBank driven through judge, consolidate and   *)
(* import while time passes.                                               *)
(***************************************************************************)
\* A Pattern of an export file.
FilePattern(type, signature, category, success, failure, last_seen) ==
    [pattern_type   |-> type,
     code_signature |-> signature,
     issue_category |-> category,
     success_count  |-> success,
     failure_count  |-> failure,
     confidence     |-> IF success + failure = 0 THEN Real(1, 2)
                        ELSE Real(success, success + failure),
     last_seen      |-> last_seen,
     created_at     |-> 0]

\* ReasoningBankExport.patterns of the files imported: a file with a row seen
\* late and a much used row, and a file that names one pattern twice.
ImportFiles ==
    { << FilePattern("anti_pattern", "s1", "logic", 0, 1, PruneAge + 1),
         FilePattern("good_pattern", "s1", "success", 10, 1, 0) >>,
      << FilePattern("ambiguous", "s1", "logic", 0, 0, 0),
         FilePattern("good_pattern", "s1", "logic", 2, 0, PruneAge + 1) >> }

\* loops_to_consensus as the callers pass it, and a count past max_loops.
LoopCounts == {1, DefaultMaxLoops + 1}

\* History: per category, <<rows, success_count, failure_count>> summed over
\* the rows of a signature.
CountsBefore(rows, signature) ==
    [c \in Categories \cup {"success"} |->
        LET idx == {i \in 1..Len(rows) : SameKey(rows[i], signature, c)}
        IN  <<Cardinality(idx), SumCount(rows, idx, "success_count"),
              SumCount(rows, idx, "failure_count")>>]

\* ReasoningBank::judge on the result of one more evaluation
CallJudge ==
    /\ Len(trajectories) < MaxJudges
    /\ \E signature \in Signatures, findings \in FindingLists,
          consensus_achieved \in BOOLEAN, loops \in LoopCounts :
        LET request_id == Len(trajectories) + 1
            r == Judge(patterns, trajectories, request_id, signature, findings,
                       consensus_achieved, loops, DefaultMaxLoops, bank_now)
        IN  /\ patterns' = r.patterns
            /\ trajectories' = r.trajectories
            /\ bank_last' = [op |-> "judge", signature |-> signature,
                             findings |-> findings,
                             before |-> CountsBefore(patterns, signature),
                             trajectories_before |-> Len(trajectories),
                             ret |-> r.ret]
    /\ UNCHANGED bank_now
    /\ UNCHANGED othersOfBank

\* ReasoningBank::consolidate
CallConsolidate ==
    /\ LET r == Consolidate(patterns, bank_now)
       IN  /\ patterns' = r.patterns
           /\ bank_last' = [op |-> "consolidate", ret |-> r.ret]
    /\ UNCHANGED <<trajectories, bank_now>>
    /\ UNCHANGED othersOfBank

\* ReasoningBank::import
CallImport ==
    /\ \E file \in ImportFiles :
        LET r == Import(patterns, file)
        IN  /\ patterns' = r.patterns
            /\ bank_last' = [op |-> "import", file |-> file, ret |-> r.ret]
    /\ UNCHANGED <<trajectories, bank_now>>
    /\ UNCHANGED othersOfBank

\* Time passes, long enough for a row to reach the pruning age.
BankElapse ==
    /\ bank_now + PruneAge + 1 <= MaxBankTime
    /\ bank_now' = bank_now + PruneAge + 1
    /\ bank_last' = [op |-> "elapse"]
    /\ UNCHANGED <<patterns, trajectories>>
    /\ UNCHANGED othersOfBank

InitBank ==
    /\ BankIdle
    /\ RunIdle
    /\ ParseIdle
    /\ LocksIdle
    /\ HooksIdle
    /\ CacheIdle
    /\ RulesIdle
    /\ ServerIdle
    /\ ToolsIdle

NextBank ==
    \/ CallJudge
    \/ CallConsolidate
    \/ CallImport
    \/ BankElapse

SpecBank == InitBank /\ [][NextBank]_vars

(***************************************************************************)
(* Claims about the reasoning bank (checked under SpecBank)                *)
(***************************************************************************)
TotalCount(row) == row.success_count + row.failure_count

\* C23: after any sequence of Judge, Consolidate and Import operations every
\* stored pattern has confidence = success_count / (success_count +
\* failure_count) when that sum is non-zero, and confidence = 0.5 when it is
\* zero.
C23_ConfidenceIsSuccessRatio ==
    \A i \in 1..Len(patterns) :
        patterns[i].confidence =
            IF TotalCount(patterns[i]) = 0 THEN Real(1, 2)
            ELSE Real(patterns[i].success_count, TotalCount(patterns[i]))

\* The pattern type the counts determine: good above a success ratio of 0.8,
\* anti above a failure ratio of 0.8, ambiguous otherwise.
TypeOfCounts(row) ==
    IF TotalCount(row) > 0 /\ 10 * row.success_count > 8 * TotalCount(row)
    THEN "good_pattern"
    ELSE IF TotalCount(row) > 0 /\ 10 * row.failure_count > 8 * TotalCount(row)
    THEN "anti_pattern"
    ELSE "ambiguous"

\* C24: after any sequence of Judge and Consolidate operations every stored
\* pattern's pattern_type is the one its counts determine.
C24_TypeFollowsCounts ==
    \A i \in 1..Len(patterns) : patterns[i].pattern_type = TypeOfCounts(patterns[i])

\* The rows of a (signature, category).
RowsOf(rows, signature, category) ==
    {i \in 1..Len(rows) : SameKey(rows[i], signature, category)}

\* C25: two Judge calls in a row whose results carry the same single finding,
\* with the same signature, category and was_successful, leave exactly one
\* pattern row for that (signature, category); its counts have grown by two
\* since before the first call, both on success_count if was_successful and
\* both on failure_count otherwise; each call has added one trajectory row.
C25_JudgeTwiceCountsTwo ==
    [][ ( /\ bank_last.op = "judge"
          /\ bank_last'.op = "judge"
          /\ Len(trajectories') > Len(trajectories)
          /\ Len(bank_last.findings) = 1
          /\ bank_last'.findings = bank_last.findings
          /\ bank_last'.signature = bank_last.signature
          /\ bank_last'.ret.was_successful = bank_last.ret.was_successful )
        =>
        LET signature == bank_last.signature
            category  == bank_last.findings[1]
            ok        == bank_last.ret.was_successful
            before    == bank_last.before[category]
            idx       == RowsOf(patterns', signature, category)
        IN  /\ Cardinality(idx) = 1
            /\ \A i \in idx :
                 /\ patterns'[i].success_count = before[2] + (IF ok THEN 2 ELSE 0)
                 /\ patterns'[i].failure_count = before[3] + (IF ok THEN 0 ELSE 2)
            /\ Len(trajectories) = bank_last.trajectories_before + 1
            /\ Len(trajectories') = bank_last.trajectories_before + 2
            /\ \A k \in {Len(trajectories), Len(trajectories')} :
                 /\ trajectories'[k].code_hash = signature
                 /\ trajectories'[k].was_successful = ok
      ]_vars

\* Two successful evaluations of one code, each with one "logic" finding, have
\* been judged on a fresh bank: one row with two successes, two trajectories.
C25_Witness ==
    /\ bank_last.op = "judge"
    /\ bank_last.findings = <<"logic">>
    /\ bank_last.before["logic"] = <<1, 1, 0>>
    /\ Len(trajectories) = 2
    /\ \A k \in 1..2 : trajectories[k].was_successful
    /\ Len(patterns) = 1
    /\ patterns[1].issue_category = "logic"
    /\ patterns[1].success_count = 2
    /\ patterns[1].failure_count = 0

\* C26: Consolidate is idempotent: of two Consolidate calls in a row, with no
\* other operation and no time passing in between, the second leaves the
\* pattern rows as the first left them.
C26_ConsolidateIdempotent ==
    [][ (bank_last.op = "consolidate" /\ bank_last'.op = "consolidate")
            => patterns' = patterns ]_vars

\* The file names no (signature, category) twice.
DistinctKeys(file) ==
    \A a, b \in 1..Len(file) :
        SameKey(file[a], file[b].code_signature, file[b].issue_category) => a = b

\* The rule of the claim for a file pattern p whose row exists as old.
ShouldMerge(p, old) ==
    \/ TotalCount(p) > TotalCount(old)
    \/ p.last_seen > old.last_seen

Later(a, b) == IF a > b THEN a ELSE b

\* C27: Import processes each pattern of the file exactly once: a pattern
\* whose (signature, category) is absent is inserted; one that exists is
\* merged (counts summed, last_seen the later of the two) if and only if the
\* file's row has a larger total count or a later last_seen, and is otherwise
\* skipped with the stored row unchanged; rows the file does not name are
\* unchanged; imported + merged + skipped is the number of patterns in the file.
C27_ImportInsertsMergesOrSkips ==
    [][ bank_last'.op = "import" =>
        LET file == bank_last'.file
            ret  == bank_last'.ret
            named(row) == \E a \in 1..Len(file) :
                             SameKey(row, file[a].code_signature, file[a].issue_category)
            absent == {a \in 1..Len(file) :
                         RowsOf(patterns, file[a].code_signature,
                                file[a].issue_category) = {}}
            merging == {a \in 1..Len(file) :
                         \E i \in RowsOf(patterns, file[a].code_signature,
                                         file[a].issue_category) :
                             ShouldMerge(file[a], patterns[i])}
        IN  /\ ret.imported + ret.merged + ret.skipped = Len(file)
            /\ Len(patterns') = Len(patterns) + ret.imported
            /\ \A i \in 1..Len(patterns) :
                 /\ SameKey(patterns'[i], patterns[i].code_signature,
                            patterns[i].issue_category)
                 /\ ~named(patterns[i]) => patterns'[i] = patterns[i]
            /\ DistinctKeys(file) =>
                 /\ ret.imported = Cardinality(absent)
                 /\ ret.merged = Cardinality(merging)
                 /\ \A a \in absent :
                      \E i \in (Len(patterns) + 1)..Len(patterns') :
                          /\ patterns'[i] = file[a]
                          /\ RowsOf(patterns', file[a].code_signature,
                                    file[a].issue_category) = {i}
                 /\ \A a \in 1..Len(file) :
                      \A i \in RowsOf(patterns, file[a].code_signature,
                                      file[a].issue_category) :
                          IF a \in merging
                          THEN /\ patterns'[i].success_count =
                                     patterns[i].success_count + file[a].success_count
                               /\ patterns'[i].failure_count =
                                     patterns[i].failure_count + file[a].failure_count
                               /\ patterns'[i].last_seen =
                                     Later(patterns[i].last_seen, file[a].last_seen)
                               /\ patterns'[i].created_at = patterns[i].created_at
                          ELSE patterns'[i] = patterns[i]
      ]_vars

\* An import has inserted one pattern of its file and merged the other into a
\* row that had as many occurrences already but had been seen earlier.
C27_Witness ==
    /\ bank_last.op = "import"
    /\ DistinctKeys(bank_last.file)
    /\ bank_last.ret = [imported |-> 1, skipped |-> 0, merged |-> 1]
    /\ \E i \in RowsOf(patterns, "s1", "logic") :
          /\ TotalCount(patterns[i]) >= 2
          /\ patterns[i].last_seen = PruneAge + 1
    /\ bank_now = 0

(***************************************************************************)
(* Claims about the reviewer adapters                                      *)
(***************************************************************************)
\* The reviewer's process ran and printed no verdict JSON the adapter parses.
NoParsableVerdict(outcome) ==
    \/ outcome.kind = "unparseable"
    \/ outcome.kind = "json" /\ ~IsOk(ParseFromOutput(outcome))

\* C28: a reviewer whose process ran but whose output holds no parsable
\* verdict JSON never yields an error from its adapter: evaluate of Codex,
\* Gemini and Qwen each returns a vote.
C28_ParseFailureDegradesToVote ==
    EvaluationDone =>
        \A r \in tool_last.trace.invoked :
            NoParsableVerdict(reviewers[r]) => IsOk(ExecutorEvaluate(r, reviewers[r]))

(***************************************************************************)
(* SpecRun: one tools/call at a time, followed across its awaits.          *)
(* tetrad_status awaits `<command> --version` of each reviewer in turn;    *)
(* a review awaits, inside tokio::join!, each enabled reviewer's           *)
(* subprocess under tokio::time::timeout.                                  *)
(***************************************************************************)
\* The longest adapter timeout tried, in ticks of the clock.
MaxWait == 2

\* The order of the awaits of handle_status: is_available of the three
\* reviewers, then version of the three.
AwaitOrder == <<"Codex", "Gemini", "Qwen", "Codex", "Gemini", "Qwen">>

\* CliExecutor::is_available, given what `<command> --version` did (exited
\* 0: "ok", exited non-zero: "fails", could not be spawned: "not_found"; a
\* subprocess that "hangs" never gets here):
\* output().await.map(|o| o.status.success()).unwrap_or(false)
IsAvailable(probe) == probe = "ok"

\* CliExecutor::version on a command that answered the probe
\* (.unwrap_or_else(|_| "unknown") in handle_status)
Version(probe) == IF probe = "ok" THEN "v1" ELSE "unknown"

\* Whether the await of stage s takes place: version is asked of the
\* available reviewers only.
IsAwaited(s, avail) == s <= 3 \/ avail[AwaitOrder[s]] = "yes"

\* The next await of handle_status after stage s, 7 when none is left.
NextAwait(s, avail) ==
    IF \E n \in (s + 1)..6 : IsAwaited(n, avail)
    THEN CHOOSE n \in (s + 1)..6 :
            IsAwaited(n, avail) /\ \A k \in (s + 1)..(n - 1) : ~IsAwaited(k, avail)
    ELSE 7

\* The json! value handle_status answers with, per reviewer.
StatusResponse(avail, prb, cfg) ==
    ToolResultSuccessJson(
        [r \in Reviewers |->
            [available |-> avail[r] = "yes",
             version   |-> IF avail[r] = "yes" THEN Version(prb[r]) ELSE "unavailable",
             enabled   |-> r \in cfg.enabled]])

\* Variant: no timer around the subprocess.
TimerNeverExpires(waited, timeout) == FALSE

\* tokio::time::timeout(self.timeout, cmd.output()): the timer has run out.
TimerExpired(waited, timeout) == waited >= timeout

\* What evaluate makes of a subprocess: its output once it has exited, a
\* Timeout once the timer has run out.
Gathered(kids, outcomes) ==
    [r \in Reviewers |->
        CASE kids[r].state = "exited"    -> outcomes[r]
          [] kids[r].state = "timed_out" -> [kind |-> "timeout"]
          [] OTHER                       -> NotRun]

\* ToolHandler::handle_status is entered.
StatusCall ==
    /\ run_pc = "idle"
    /\ run_pc' = "status"
    /\ awaited' = 1
    /\ available' = [r \in Reviewers |-> "unknown"]
    /\ UNCHANGED <<children, probes, timeouts, run_response>>
    /\ UNCHANGED othersOfRun

\* The subprocess handle_status awaits has exited (or could not be spawned):
\* the handler goes on to its next await, or builds its response.
StatusAwait ==
    /\ run_pc = "status"
    /\ LET r == AwaitOrder[awaited]
           avail == IF awaited <= 3
                    THEN [available EXCEPT ![r] = IF IsAvailable(probes[r]) THEN "yes"
                                                  ELSE "no"]
                    ELSE available
           next == NextAwait(awaited, avail)
       IN  /\ probes[r] # "hangs"
           /\ available' = avail
           /\ IF next <= 6
              THEN /\ awaited' = next
                   /\ UNCHANGED <<run_pc, run_response>>
              ELSE /\ awaited' = 0
                   /\ run_pc' = "responded"
                   /\ run_response' = Some(StatusResponse(avail, probes, config))
    /\ UNCHANGED <<children, probes, timeouts>>
    /\ UNCHANGED othersOfRun

\* A review tool is called: evaluate_internal reaches collect_votes, which
\* starts the subprocess of every enabled reviewer.
ReviewCall ==
    /\ run_pc = "idle"
    /\ uuid_count < MaxEvals
    /\ run_pc' = "collect"
    /\ children' = [r \in Reviewers |->
                      IF r \in config.enabled THEN [state |-> "running", waited |-> 0]
                      ELSE [state |-> "none", waited |-> 0]]
    /\ UNCHANGED <<awaited, available, probes, timeouts, run_response>>
    /\ UNCHANGED othersOfRun

\* A reviewer's subprocess exits (or cannot be spawned) and the timeout
\* future, which polls the subprocess first, returns its output; a
\* subprocess that hangs never exits.
ChildExits(r) ==
    /\ run_pc = "collect"
    /\ children[r].state = "running"
    /\ reviewers[r].kind # "timeout"
    /\ children' = [children EXCEPT ![r].state = "exited"]
    /\ UNCHANGED <<run_pc, awaited, available, probes, timeouts, run_response>>
    /\ UNCHANGED othersOfRun

\* The clock advances while subprocesses are awaited; a timer that has run
\* out fires first.
RunTick ==
    /\ run_pc = "collect"
    /\ \E r \in Reviewers : children[r].state = "running"
    /\ \A r \in Reviewers :
          children[r].state = "running" =>
              /\ ~TimerExpired(children[r].waited, timeouts[r])
              /\ children[r].waited < MaxWait
    /\ children' = [r \in Reviewers |->
                      IF children[r].state = "running"
                      THEN [children[r] EXCEPT !.waited = @ + 1]
                      ELSE children[r]]
    /\ UNCHANGED <<run_pc, awaited, available, probes, timeouts, run_response>>
    /\ UNCHANGED othersOfRun

\* tokio::time::timeout returns Err(Elapsed): evaluate answers ExecutorTimeout.
TimeoutFires(r) ==
    /\ run_pc = "collect"
    /\ children[r].state = "running"
    /\ TimerExpired(children[r].waited, timeouts[r])
    /\ children' = [children EXCEPT ![r].state = "timed_out"]
    /\ UNCHANGED <<run_pc, awaited, available, probes, timeouts, run_response>>
    /\ UNCHANGED othersOfRun

\* tokio::join! completes: the rest of evaluate_internal runs and the tool
\* formats its result.
JoinCompletes ==
    /\ run_pc = "collect"
    /\ \A r \in Reviewers : children[r].state # "running"
    /\ LET request_id == uuid_count + 1
           outcomes == Gathered(children, reviewers)
           ev == EvaluateInternal(request_id, outcomes, config, hooks, bank)
       IN  /\ run_response' = Some(EvaluateRequest(request_id, outcomes, config, hooks, bank))
           /\ bank' = ev.bank
    /\ uuid_count' = uuid_count + 1
    /\ run_pc' = "responded"
    /\ UNCHANGED <<awaited, available, children, probes, timeouts>>
    /\ UNCHANGED <<config, reviewers, confirmations, tool_last, hooks>>
    /\ UNCHANGED <<ruleVars, cacheVars, serverVars, bankVars, parseVars, hookVars, lockVars>>

\* The response is written and the server reads its next request.
NextCall ==
    /\ run_pc = "responded"
    /\ run_pc' = "idle"
    /\ available' = <<>>
    /\ children' = <<>>
    /\ run_response' = None
    /\ UNCHANGED <<awaited, probes, timeouts>>
    /\ UNCHANGED othersOfRun

\* What the reviewers' subprocesses do in a review: all answer; one hangs and
\* the others answer; all hang; one hangs, one answers, one prints no verdict.
RunReviewers ==
    { [r \in Reviewers |-> [kind |-> "verdict", vote |-> "Pass", score |-> 90]],
      [Codex  |-> [kind |-> "verdict", vote |-> "Pass", score |-> 90],
       Gemini |-> [kind |-> "timeout"],
       Qwen   |-> [kind |-> "verdict", vote |-> "Fail", score |-> 60]],
      [r \in Reviewers |-> [kind |-> "timeout"]],
      [Codex  |-> [kind |-> "timeout"],
       Gemini |-> [kind |-> "verdict", vote |-> "Pass", score |-> 90],
       Qwen   |-> [kind |-> "unparseable"]] }

\* ExecutorConfig.timeout_secs of the three reviewers.
RunTimeouts ==
    { [r \in Reviewers |-> MaxWait],
      [Codex |-> 1, Gemini |-> MaxWait, Qwen |-> 1] }

\* What `--version` does for the three commands: all answer; one exits
\* non-zero and one is not installed; the second hangs; the last hangs.
RunProbes ==
    { [r \in Reviewers |-> "ok"],
      [Codex |-> "ok", Gemini |-> "fails", Qwen |-> "not_found"],
      [Codex |-> "ok", Gemini |-> "hangs", Qwen |-> "ok"],
      [Codex |-> "fails", Gemini |-> "ok", Qwen |-> "hangs"] }

InitRun ==
    /\ run_pc = "idle"
    /\ awaited = 0
    /\ available = <<>>
    /\ children = <<>>
    /\ probes \in RunProbes
    /\ timeouts \in RunTimeouts
    /\ run_response = None
    /\ config = [enabled |-> Reviewers, rule |-> "strong", min_score |-> DefaultMinScore,
                 cache_enabled |-> TRUE, reasoning_enabled |-> TRUE]
    /\ reviewers \in RunReviewers
    /\ confirmations = <<>>
    /\ uuid_count = 0
    /\ tool_last = [tool |-> "none"]
    /\ hooks = HooksWithDefaults
    /\ bank = [failing |-> FALSE, patterns |-> 0, trajectories |-> {}]
    /\ BankIdle
    /\ CacheIdle
    /\ RulesIdle
    /\ ServerIdle
    /\ ParseIdle
    /\ LocksIdle
    /\ HooksIdle

NextRun ==
    \/ StatusCall
    \/ StatusAwait
    \/ ReviewCall
    \/ \E r \in Reviewers : ChildExits(r)
    \/ RunTick
    \/ \E r \in Reviewers : TimeoutFires(r)
    \/ JoinCompletes
    \/ NextCall

SpecRun == InitRun /\ [][NextRun]_vars

\* A step of a call that waits on subprocesses: an await of handle_status
\* returns, the clock advances, a subprocess exits or a timer fires.
RunProgress ==
    \/ StatusAwait
    \/ \E r \in Reviewers : ChildExits(r)
    \/ RunTick
    \/ \E r \in Reviewers : TimeoutFires(r)

\* The step JoinCompletes takes, by its guard and its effect on run_pc.
JoinStep ==
    /\ run_pc = "collect"
    /\ \A r \in Reviewers : children[r].state # "running"
    /\ run_pc' = "responded"

\* The runtime keeps polling the futures of the call, the clock keeps
\* advancing and a subprocess that is going to exit does exit: while some step
\* of the call can be taken, one is taken; and once every future of the join
\* is ready the handler runs on to its response.
FairRun == WF_vars(RunProgress) /\ WF_run_pc(JoinStep)

SpecRunFair == SpecRun /\ FairRun

\* A tools/call of tetrad_status is being served.
StatusPending == run_pc = "status"

\* The response of a review is ready: collect_votes has run.
ReviewResponded == run_pc = "responded" /\ "Codex" \in DOMAIN children

\* C29: the availability probe is bounded: a reviewer command that hangs on
\* --version is given up after a bounded wait, so a tetrad_status call that
\* has been received always eventually gets its response.
C29_StatusEventuallyReturns == StatusPending ~> (run_pc = "responded")

\* The vote of reviewer r in the response of a review.
RespondedVote(r) == run_response.some.content.votes[r]

\* The vote the output of r's subprocess stands for.
OwnVote(r) ==
    LET res == ExecutorEvaluate(r, reviewers[r])
    IN  IF IsOk(res) THEN [vote |-> res.ok.vote, score |-> res.ok.score]
        ELSE [vote |-> "Warn", score |-> 50]

\* A Timeout is raised for r in this step.
TimesOut(r) ==
    /\ run_pc = "collect" /\ run_pc' = "collect"
    /\ children[r].state = "running"
    /\ children'[r].state = "timed_out"

\* C30: a reviewer subprocess that never exits cannot block an evaluation
\* forever.  A Timeout is raised for a reviewer only once that reviewer's own
\* timer has run out, and raising it leaves the other reviewers' subprocesses
\* as they are; in the response every reviewer whose subprocess exited has the
\* vote of its own output, whatever happened to its peers, and a reviewer that
\* never exited has the Warn vote of score 50 that stands for its Timeout; and
\* every review that has started collecting votes eventually has its response.
C30_HangingReviewerTimesOutAlone ==
    /\ [][\A r \in Reviewers :
            TimesOut(r) =>
                /\ TimerExpired(children[r].waited, timeouts[r])
                /\ \A q \in Reviewers \ {r} : children'[q] = children[q]]_vars
    /\ [](ReviewResponded =>
            /\ ~run_response.some.is_error
            /\ DOMAIN run_response.some.content.votes = config.enabled
            /\ \A r \in config.enabled :
                  /\ reviewers[r].kind = "timeout" => children[r].state = "timed_out"
                  /\ children[r].state = "timed_out" =>
                        RespondedVote(r) = [vote |-> "Warn", score |-> 50]
                  /\ children[r].state = "exited" => RespondedVote(r) = OwnVote(r))
    /\ ((run_pc = "collect") ~> (run_pc = "responded"))

\* A review has answered although Gemini's subprocess never exited: Gemini
\* timed out, Codex and Qwen exited and their verdicts are in the response.
C30_Witness ==
    /\ ReviewResponded
    /\ reviewers["Gemini"].kind = "timeout"
    /\ children["Gemini"].state = "timed_out"
    /\ children["Codex"].state = "exited"
    /\ children["Qwen"].state = "exited"
    /\ RespondedVote("Codex") = [vote |-> "Pass", score |-> 90]
    /\ RespondedVote("Qwen") = [vote |-> "Fail", score |-> 60]
    /\ RespondedVote("Gemini") = [vote |-> "Warn", score |-> 50]

\* C31: tetrad_final_check issues a certificate (certified = true) only when
\* the decision of its evaluation is Pass: an evaluation whose decision is
\* Block or Revise is never certified, under any rule and any vote scores.
C31_CertifiedOnlyOnPass ==
    (tool_last.tool = "tetrad_final_check" /\ EvaluationDone) =>
        (tool_last.result.content.certified => tool_last.eval.ok.decision = "Pass")

\* A tool call that took the steps of a review is recorded.
StepsRecorded == "steps" \in DOMAIN tool_last

\* The positions of a step in the recorded call.
StepAt(name) == {i \in 1..Len(tool_last.steps) : tool_last.steps[i] = name}

\* Every step named a comes before every step named b.
StepsBefore(a, b) == \A i \in StepAt(a), j \in StepAt(b) : i < j

\* The order in which an evaluation takes its steps.
StepOrder ==
    <<"CollectVotes", "Consensus", "PostEvaluate", "OnConsensus", "OnBlock", "Judge",
      "CacheInsert">>

\* The steps recorded respect StepOrder, the consensus engine is called once and
\* on the votes of all enabled reviewers, and judge and the cache insert
\* happen at most once.
StepsInOrder ==
    /\ \A m \in 1..Len(StepOrder), n \in 1..Len(StepOrder) :
          m < n => StepsBefore(StepOrder[m], StepOrder[n])
    /\ \A name \in {"CollectVotes", "Consensus", "Judge", "CacheInsert"} :
          Cardinality(StepAt(name)) <= 1
    /\ StepAt("Consensus") # {} =>
          /\ StepAt("CollectVotes") # {}
          /\ tool_last.trace.invoked = config.enabled
    /\ StepAt("CacheInsert") # {} => tool_last.tool = "tetrad_review_code"

\* What the consensus engine answers in the recorded call.
ComputedResult ==
    Aggregate(CollectVotes(reviewers, config), config.rule, config.min_score, uuid_count)

HooksPassed(hks) == RunHooks(hks) = "Ok"

C33_PreEvaluateBeforeCacheLookup ==
    (StepsRecorded /\ tool_last.tool = "tetrad_review_code") =>
        /\ StepsBefore("PreEvaluate", "CacheGet")
        /\ hooks.pre_evaluate # <<>> => StepAt("PreEvaluate") # {}

\* C34: when at least one reviewer is disabled and the rule is golden or
\* strong, every evaluation (no hook skipping it) returns the decision Revise
\* with consensus_achieved = false: no review returns Pass or Block, and
\* tetrad_final_check does not certify.
C34_DisabledReviewerForcesRevise ==
    (EvaluationDone /\ config.enabled # Reviewers /\ config.rule \in {"golden", "strong"}) =>
        /\ tool_last.eval.ok.decision = "Revise"
        /\ ~tool_last.eval.ok.consensus_achieved
        /\ tool_last.tool = "tetrad_final_check" =>
              /\ ~tool_last.result.content.certified
              /\ tool_last.result.content.certificate_id = None
        /\ tool_last.tool # "tetrad_final_check" =>
              tool_last.result.content.decision = "Revise"

\* A final check under the strong rule with Qwen disabled, Codex and Gemini
\* both passing with score 90: Revise, not certified.
C34_Witness ==
    /\ EvaluationDone
    /\ tool_last.tool = "tetrad_final_check"
    /\ config.rule = "strong"
    /\ config.enabled = {"Codex", "Gemini"}
    /\ \A r \in config.enabled : tool_last.eval.ok.votes[r].vote = "Pass"
    /\ \A r \in config.enabled : tool_last.eval.ok.votes[r].score = 90
    /\ tool_last.eval.ok.decision = "Revise"
    /\ ~tool_last.result.content.certified

\* The first PreEvaluate hook that does not return Continue returns Skip.
SkipsFirst ==
    \E i \in 1..Len(hooks.pre_evaluate) :
        /\ hooks.pre_evaluate[i] = "Skip"
        /\ \A j \in 1..(i - 1) : hooks.pre_evaluate[j] = "Continue"

\* The step is a tool call that entered evaluate_internal.
EvaluationStep == uuid_count' = uuid_count + 1

\* The result is the synthetic one of a skipped evaluation.
IsSynthetic(result) ==
    /\ result.decision = "Pass"
    /\ result.score = 100
    /\ result.consensus_achieved
    /\ DOMAIN result.votes = {}

\* C35: when a PreEvaluate hook returns Skip the call returns a synthetic
\* result (decision Pass, score 100, consensus_achieved true, no votes) under
\* the request's own id, without invoking a reviewer, without running a
\* PostEvaluate, OnConsensus or OnBlock hook and without calling Judge (the
\* bank gets no trajectory); a tetrad_review_code call stores this synthetic
\* result in the cache, and a later call with the same code is served it.
C35_SkipReturnsSyntheticResult ==
    [][/\ (EvaluationStep /\ SkipsFirst) =>
             /\ IsOk(tool_last'.eval)
             /\ IsSynthetic(tool_last'.eval.ok)
             /\ tool_last'.eval.ok.request_id = uuid_count'
             /\ ~tool_last'.result.is_error
             /\ tool_last'.trace.invoked = {}
             /\ \A i \in 1..Len(tool_last'.trace.hooks_run) :
                   tool_last'.trace.hooks_run[i].event = "PreEvaluate"
             /\ \A i \in 1..Len(tool_last'.steps) :
                   tool_last'.steps[i] \in {"CacheGet", "PreEvaluate", "CacheInsert"}
             /\ ~tool_last'.trace.judge_called
             /\ bank' = bank
             /\ \A t \in ReviewInputs :
                   (tool_last'.tool = "tetrad_review_code"
                    /\ tool_last'.arguments = ReviewArguments(t)) =>
                       /\ Stored(t)'
                       /\ latest_by_key'[KeyOf(t)].value = tool_last'.eval.ok
                       /\ \E i \in 1..Len(cache') :
                             /\ cache'[i].key = KeyOf(t)
                             /\ cache'[i].result = tool_last'.eval.ok
       /\ \A t \in ReviewInputs :
             (ReviewCodeCall(t) /\ Stored(t) /\ IsSynthetic(latest_by_key[KeyOf(t)].value)) =>
                 /\ tool_last'.result = FormatResult(latest_by_key[KeyOf(t)].value)
                 /\ tool_last'.result.content.decision = "Pass"
                 /\ tool_last'.result.content.score = 100
                 /\ uuid_count' = uuid_count
                 /\ bank' = bank]_vars

\* A skipped tetrad_review_code call was cached and a second call with the
\* same code was answered from the cache with the synthetic result.
C35_Witness ==
    /\ SkipsFirst
    /\ tool_last.tool = "tetrad_review_code"
    /\ tool_last.trace = NoTrace
    /\ StepsRecorded
    /\ tool_last.steps = <<"CacheGet">>
    /\ hits = 1 /\ misses = 1 /\ uuid_count = 1
    /\ tool_last.result.content.decision = "Pass"
    /\ tool_last.result.content.score = 100
    /\ tool_last.result.content.request_id = 1
    /\ bank.trajectories = {}

\* The step is a call of EvaluationCache::get, for the triple in cache_last'.
GetStep == gets' = gets + 1 /\ cache_last'.op = "get"

\* C36: every cache get increments exactly one of the hit and miss counters:
\* hits when a value is returned, which is when the entry is present with an
\* age of at most the TTL (an age equal to the TTL included), misses
\* otherwise; a get that finds an entry older than the TTL also removes it;
\* insert, invalidate, clear and cleanup_expired (and stats, and the passing
\* of time) never change the counters; so hits + misses always equals the
\* number of get calls.
C36_CountersFollowGets ==
    /\ [](hits + misses = gets)
    /\ [][/\ GetStep =>
                LET key   == KeyOf(cache_last'.triple)
                    i     == LruIndex(cache, key)
                    fresh == i # 0 /\ now - cache[i].cached_at <= CacheTtl
                IN  /\ fresh =>
                          /\ hits' = hits + 1 /\ misses' = misses
                          /\ cache_last'.ret = Some(cache[i].result)
                          /\ LruIndex(cache', key) # 0
                    /\ ~fresh =>
                          /\ misses' = misses + 1 /\ hits' = hits
                          /\ cache_last'.ret = None
                          /\ LruIndex(cache', key) = 0
                          /\ Len(cache') = IF i # 0 THEN Len(cache) - 1 ELSE Len(cache)
          /\ cache_last'.op \in {"insert", "invalidate", "clear", "cleanup", "stats", "tick"} =>
                gets' = gets /\ hits' = hits /\ misses' = misses]_vars

\* A get found an entry whose age is exactly the TTL and counted a hit, after
\* an earlier get had counted a miss.
C36_Witness ==
    /\ cache_last.op = "get"
    /\ cache_last.ret # None
    /\ cache # <<>>
    /\ cache[1].key = KeyOf(cache_last.triple)
    /\ now - cache[1].cached_at = CacheTtl
    /\ hits >= 1 /\ misses >= 1
    /\ gets = hits + misses

(***************************************************************************)
(* SpecParse: ExecutorResponse::parse_from_output on the text a reviewer   *)
(* printed.  A text is a sequence of characters, written here as a         *)
(* sequence of pieces: a brace, a quote, a backslash, or a run of JSON     *)
(* members.                                                                *)
(***************************************************************************)
\* The longest text tried out of every combination of pieces.
MaxPieces == 4

\* The text of each piece.  An element is one of the four bytes the scanner
\* tells apart, a colon, a comma, or a run of letters or digits, which the
\* scanner passes byte by byte through its last arm.
PieceText ==
    [open   |-> <<"{">>,
     close  |-> <<"}">>,
     quote  |-> <<"\"">>,
     escape |-> <<"\\">>,
     vote   |-> <<"\"", "vote", "\"", ":", "\"", "PASS", "\"", ",">>,
     score  |-> <<"\"", "score", "\"", ":", "90", ",",
                  "\"", "reasoning", "\"", ":", "\"", "ok", "\"">>,
     big    |-> <<"\"", "score", "\"", ":", "300", ",",
                  "\"", "reasoning", "\"", ":", "\"", "ok", "\"">>]

Pieces == DOMAIN PieceText

RECURSIVE TextOf(_)
\* The characters of a sequence of pieces.
TextOf(pieces) ==
    IF Len(pieces) = 0 THEN <<>>
    ELSE PieceText[pieces[1]] \o TextOf(SubSeq(pieces, 2, Len(pieces)))

RECURSIVE PiecesUpTo(_)
\* Every sequence of at most n pieces.
PiecesUpTo(n) ==
    IF n = 0 THEN {<<>>}
    ELSE LET shorter == PiecesUpTo(n - 1)
         IN  shorter \cup {Append(s, p) : s \in shorter, p \in Pieces}

\* Texts longer than MaxPieces: a verdict wrapped in another object, a verdict
\* after an object that is none, a score that is no u8 before a verdict, and
\* a verdict after a string that holds a brace.
LongOutputs ==
    { <<"open", "open", "vote", "score", "close", "close">>,
      <<"open", "vote", "close", "open", "vote", "score", "close">>,
      <<"open", "vote", "big", "close", "open", "vote", "score", "close">>,
      <<"quote", "open", "quote", "open", "vote", "score", "close">>,
      <<"open", "quote", "close", "quote", "vote", "score", "close">>,
      <<"open", "quote", "escape", "quote", "close", "quote", "vote", "score", "close">> }

\* The texts parse_from_output is tried on; none holds a code fence, so that
\* strip_code_fences returns each of them as it is.
ParseOutputs == PiecesUpTo(MaxPieces) \cup LongOutputs

\* One turn of the loop of find_closing_brace on one byte: the three flags
\* after it, and whether it returned.
ScanByte(byte, depth, in_string, escape_next) ==
    CASE escape_next ->
            [depth |-> depth, in_string |-> in_string, escape_next |-> FALSE, found |-> FALSE]
      [] ~escape_next /\ byte = "\\" /\ in_string ->
            [depth |-> depth, in_string |-> in_string, escape_next |-> TRUE, found |-> FALSE]
      [] ~escape_next /\ byte = "\"" ->
            [depth |-> depth, in_string |-> ~in_string, escape_next |-> FALSE, found |-> FALSE]
      [] ~escape_next /\ byte = "{" /\ ~in_string ->
            [depth |-> depth + 1, in_string |-> in_string, escape_next |-> FALSE, found |-> FALSE]
      [] ~escape_next /\ byte = "}" /\ ~in_string ->
            [depth |-> depth - 1, in_string |-> in_string, escape_next |-> FALSE,
             found |-> depth - 1 = 0]
      [] OTHER ->
            [depth |-> depth, in_string |-> in_string, escape_next |-> FALSE, found |-> FALSE]

RECURSIVE ScanForClosingBrace(_, _, _)
\* The loop of find_closing_brace from byte i on, flags being the three flags
\* before it: the index of the closing brace, 0 for None.
ScanForClosingBrace(input, i, flags) ==
    IF i > Len(input) THEN 0
    ELSE LET after == ScanByte(input[i], flags.depth, flags.in_string, flags.escape_next)
         IN  IF after.found THEN i ELSE ScanForClosingBrace(input, i + 1, after)

\* ExecutorResponse::find_closing_brace
FindClosingBrace(input, start) ==
    ScanForClosingBrace(input, start,
                        [depth |-> 0, in_string |-> FALSE, escape_next |-> FALSE, found |-> FALSE])

\* The text "vote" and the text "score", quotes included.
VoteField == <<"\"", "vote", "\"">>

ScoreField == <<"\"", "score", "\"">>

\* str::contains
ContainsText(text, word) ==
    \E i \in 1..(Len(text) - Len(word) + 1) : SubSeq(text, i, i + Len(word) - 1) = word

\* ExecutorResponse::is_valid_executor_json
IsValidExecutorJson(json_str) ==
    ContainsText(json_str, VoteField) /\ ContainsText(json_str, ScoreField)

\* The start i passes the test of the loop of find_balanced_json.
IsCandidateStart(input, i) ==
    /\ input[i] = "{"
    /\ FindClosingBrace(input, i) # 0
    /\ IsValidExecutorJson(SubSeq(input, i, FindClosingBrace(input, i)))

\* ExecutorResponse::find_balanced_json: the first and last index of the
\* object returned, or None.
FindBalancedJson(input) ==
    IF \E i \in 1..Len(input) : IsCandidateStart(input, i)
    THEN LET i == CHOOSE k \in 1..Len(input) :
                     IsCandidateStart(input, k)
                     /\ \A j \in 1..(k - 1) : ~IsCandidateStart(input, j)
         IN  Some([from |-> i, to |-> FindClosingBrace(input, i)])
    ELSE None

\* serde_json::from_str::<ExecutorResponse> up to the width of score: the
\* members read, or an error.  Of the texts made of the pieces, the JSON
\* objects that have a vote, a score and a reasoning member, each once, are
\* the two below; every other text is no JSON, or lacks or repeats a field.
SerdeFromStr(json_str) ==
    IF json_str = TextOf(<<"open", "vote", "score", "close">>)
    THEN Ok([vote |-> "PASS", score |-> 90])
    ELSE IF json_str = TextOf(<<"open", "vote", "big", "close">>)
    THEN Ok([vote |-> "PASS", score |-> 300])
    ELSE Err([error |-> "ExecutorFailed"])

\* ExecutorResponse::parse_from_output on a text without code fences:
\* [selected, ret].
ParseFromOutputText(output) ==
    LET found == FindBalancedJson(output)
    IN  IF found # None
        THEN LET read == SerdeFromStr(SubSeq(output, found.some.from, found.some.to))
             IN  [selected |-> found,
                  ret      |-> IF IsOk(read) THEN ParseFromOutput(read.ok) ELSE read]
        ELSE [selected |-> None, ret |-> Err([error |-> "ExecutorFailed"])]

\* A reviewer printed a text and its adapter parses it.
ParseOutput ==
    /\ parse_last.op = "printed"
    /\ LET parsed == ParseFromOutputText(TextOf(parse_last.output))
       IN  parse_last' = [op       |-> "parse",
                          output   |-> parse_last.output,
                          selected |-> parsed.selected,
                          ret      |-> parsed.ret]
    /\ UNCHANGED othersOfParse

\* A reviewer has printed one of the texts.
Printed == parse_last \in {[op |-> "printed", output |-> pieces] : pieces \in ParseOutputs}

InitParse ==
    /\ Printed
    /\ LocksIdle
    /\ HooksIdle
    /\ RunIdle
    /\ BankIdle
    /\ CacheIdle
    /\ RulesIdle
    /\ ServerIdle
    /\ ToolsIdle

NextParse == ParseOutput

SpecParse == InitParse /\ [][NextParse]_vars

\* The objects find_balanced_json may return: for each opening brace whose
\* closing brace is found, the text between them, when it holds both fields.
CandidateStarts(input) == {i \in 1..Len(input) : IsCandidateStart(input, i)}

\* C37: parse_from_output selects the first balanced {...} object (brace
\* depth counted outside string literals, backslash escapes honoured inside
\* them) whose text contains both "vote" and "score", and reports an error
\* only when no candidate object in the output contains both fields.
C37_FirstCandidateParsed ==
    parse_last.op = "parse" =>
        LET input  == TextOf(parse_last.output)
            starts == CandidateStarts(input)
        IN  /\ starts # {} =>
                  /\ parse_last.selected # None
                  /\ parse_last.selected.some.from \in starts
                  /\ \A i \in starts : parse_last.selected.some.from <= i
                  /\ parse_last.selected.some.to =
                         FindClosingBrace(input, parse_last.selected.some.from)
            /\ starts = {} => parse_last.selected = None
            /\ ~IsOk(parse_last.ret) => starts = {}

\* ---------------------------------------------------------------------
\* The hook system: hooks are registered one by one and run_pre_evaluate is
\* called on what was registered.

MaxHooks == 3

HookEvents == {"PreEvaluate", "PostEvaluate", "OnConsensus", "OnBlock"}

\* A hook, given as the event its event() names and what its execute
\* returns: Skip and ModifyRequest are verdicts of PreEvaluate hooks.
HookKinds ==
    [event : {"PreEvaluate"}, result : {"Continue", "Skip", "ModifyRequest", "Err"}]
    \cup [event : HookEvents \ {"PreEvaluate"}, result : {"Continue", "Err"}]

\* Variant: a hook is put before the hooks of its event registered earlier.
HookSystemRegisterFirst(hks, hook) ==
    CASE hook.event = "PreEvaluate" ->
            [hks EXCEPT !.pre_evaluate = <<hook.result>> \o @]
      [] hook.event = "PostEvaluate" ->
            [hks EXCEPT !.post_evaluate = <<hook.result>> \o @]
      [] hook.event = "OnConsensus" ->
            [hks EXCEPT !.on_consensus = <<hook.result>> \o @]
      [] hook.event = "OnBlock" ->
            [hks EXCEPT !.on_block = <<hook.result>> \o @]

\* HookSystem::register
HookSystemRegister(hks, hook) ==
    CASE hook.event = "PreEvaluate" ->
            [hks EXCEPT !.pre_evaluate = Append(@, hook.result)]
      [] hook.event = "PostEvaluate" ->
            [hks EXCEPT !.post_evaluate = Append(@, hook.result)]
      [] hook.event = "OnConsensus" ->
            [hks EXCEPT !.on_consensus = Append(@, hook.result)]
      [] hook.event = "OnBlock" ->
            [hks EXCEPT !.on_block = Append(@, hook.result)]

\* HookSystem::new
HookSystemNew ==
    [pre_evaluate |-> <<>>, post_evaluate |-> <<>>, on_consensus |-> <<>>, on_block |-> <<>>]

\* system.register(hook)
Register ==
    /\ Len(registered) < MaxHooks
    /\ \E hook \in HookKinds :
          /\ hooks' = HookSystemRegister(hooks, hook)
          /\ registered' = Append(registered, hook)
    /\ hook_last' = [op |-> "register"]
    /\ UNCHANGED <<config, reviewers, confirmations, uuid_count, tool_last, bank>>
    /\ UNCHANGED othersOfHooks

\* system.run_pre_evaluate(request)
CallRunPreEvaluate ==
    /\ hook_last' = [op       |-> "run_pre_evaluate",
                     ret      |-> RunPreEvaluate(hooks.pre_evaluate),
                     executed |-> HooksExecuted("PreEvaluate", hooks.pre_evaluate,
                                                PreEvaluateStops)]
    /\ UNCHANGED <<registered, toolVars>>
    /\ UNCHANGED othersOfHooks

InitHooks ==
    /\ HooksIdle
    /\ ParseIdle
    /\ LocksIdle
    /\ RunIdle
    /\ BankIdle
    /\ CacheIdle
    /\ RulesIdle
    /\ ServerIdle
    /\ config = [enabled |-> {"Codex", "Gemini", "Qwen"}, rule |-> "strong", min_score |-> 70,
                 cache_enabled |-> TRUE, reasoning_enabled |-> TRUE]
    /\ reviewers = [r \in {"Codex", "Gemini", "Qwen"} |-> [kind |-> "not_found"]]
    /\ confirmations = <<>>
    /\ uuid_count = 0
    /\ tool_last = [tool |-> "none"]
    /\ hooks = HookSystemNew
    /\ bank = [failing |-> FALSE, patterns |-> 0, trajectories |-> {}]

NextHooks == Register \/ CallRunPreEvaluate

SpecHooks == InitHooks /\ [][NextHooks]_vars

\* What the PreEvaluate hooks registered so far return, in registration order.
RECURSIVE PreEvaluateRegistered(_)
PreEvaluateRegistered(regs) ==
    IF Len(regs) = 0 THEN <<>>
    ELSE LET before == PreEvaluateRegistered(SubSeq(regs, 1, Len(regs) - 1))
             last   == regs[Len(regs)]
         IN  IF last.event = "PreEvaluate" THEN Append(before, last.result) ELSE before

\* What the hooks executed by the last call returned, in the order executed.
ExecutedResults == [i \in 1..Len(hook_last.executed) |-> hook_last.executed[i].result]

\* C38: run_pre_evaluate executes the PreEvaluate hooks in registration
\* order and stops at the first that returns Skip or ModifyRequest, returning
\* that verdict without executing any later hook; when every hook returns
\* Continue all of them run and the verdict is Continue; hooks registered for
\* other events are never run by it.
C38_PreEvaluateInOrderUntilVerdict ==
    hook_last.op = "run_pre_evaluate" =>
        LET pre == PreEvaluateRegistered(registered)
            n   == Len(hook_last.executed)
        IN  /\ n <= Len(pre)
            /\ ExecutedResults = SubSeq(pre, 1, n)
            /\ \A i \in 1..(n - 1) : pre[i] = "Continue"
            /\ \A i \in 1..n : hook_last.executed[i].event = "PreEvaluate"
            /\ (n > 0 /\ pre[n] \in {"Skip", "ModifyRequest"}) => hook_last.ret = pre[n]
            /\ (\E i \in 1..Len(pre) : pre[i] \in {"Skip", "ModifyRequest"}
                                       /\ \A j \in 1..(i - 1) : pre[j] = "Continue")
                  => /\ n > 0
                     /\ pre[n] \in {"Skip", "ModifyRequest"}
            /\ (\A i \in 1..Len(pre) : pre[i] = "Continue")
                  => /\ n = Len(pre)
                     /\ hook_last.ret = "Continue"

\* Three hooks were registered, one for another event between two PreEvaluate
\* hooks of which the second modifies the request, and the call returned its
\* verdict.
C38_Witness ==
    /\ hook_last.op = "run_pre_evaluate"
    /\ Len(registered) = 3
    /\ registered[1] = [event |-> "PreEvaluate", result |-> "Continue"]
    /\ registered[2].event = "PostEvaluate"
    /\ registered[3] = [event |-> "PreEvaluate", result |-> "ModifyRequest"]
    /\ hook_last.ret = "ModifyRequest"
    /\ Len(hook_last.executed) = 2

\* A step that imports once more the file the last operation imported.
ImportAgainStep ==
    /\ bank_last.op = "import"
    /\ bank_last'.op = "import"
    /\ bank_now' = bank_now
    /\ bank_last'.file = bank_last.file

\* C40: importing the same export file, whose patterns have pairwise
\* distinct (signature, category), a second time with no other operation in
\* between changes no pattern row: every pattern of the file is counted as
\* skipped (imported = 0, merged = 0), whatever the first import did.
C40_SecondImportChangesNothing ==
    [][(ImportAgainStep /\ DistinctKeys(bank_last.file)) =>
          /\ patterns' = patterns
          /\ bank_last'.ret = [imported |-> 0, skipped |-> Len(bank_last.file), merged |-> 0]]_vars

\* The file of two patterns was imported again: its rows, the one inserted
\* as the file has it and the one that took the file's last_seen, are in the
\* bank from an import before, and both patterns were skipped.
C40_Witness ==
    /\ bank_last.op = "import"
    /\ DistinctKeys(bank_last.file)
    /\ bank_last.ret = [imported |-> 0, skipped |-> 2, merged |-> 0]
    /\ \E i \in 1..Len(patterns) :
          /\ SameKey(patterns[i], "s1", "success")
          /\ patterns[i].success_count = 10
          /\ patterns[i].failure_count = 1
    /\ \E i \in 1..Len(patterns) :
          /\ SameKey(patterns[i], "s1", "logic")
          /\ patterns[i].failure_count > 1
          /\ patterns[i].last_seen = PruneAge + 1

\* ---------------------------------------------------------------------
\* Concurrent tool calls on one ToolHandler: each call executes the
\* statements of its handler one by one, and an await of a lock passes only
\* when the lock can be given.

MaxCalls == 2

Calls == 1..MaxCalls

\* The awaits of the three locks: cache and confirmations are RwLocks, the
\* reasoning bank is a Mutex.
Acquires ==
    ("cache.write" :> [lock |-> "cache", mode |-> "write"])
    @@ ("cache.read" :> [lock |-> "cache", mode |-> "read"])
    @@ ("reasoning_bank.lock" :> [lock |-> "reasoning_bank", mode |-> "write"])
    @@ ("confirmations.write" :> [lock |-> "confirmations", mode |-> "write"])
    @@ ("confirmations.read" :> [lock |-> "confirmations", mode |-> "read"])

\* The ends of the blocks that hold a guard, where the guard is dropped.
Drops ==
    ("drop cache" :> "cache")
    @@ ("drop reasoning_bank" :> "reasoning_bank")
    @@ ("drop confirmations" :> "confirmations")

\* The statements of ToolHandler::evaluate_internal with the default hooks.
EvaluateInternalPath ==
    <<"run_pre_evaluate",
      "reasoning_bank.lock", "retrieve", "drop reasoning_bank",
      "collect_votes", "join", "consensus.evaluate", "run_post_evaluate",
      "reasoning_bank.lock", "judge", "drop reasoning_bank">>

\* handle_review_code on a hit: the result is formatted from the entry
\* borrowed from the cache, then the guard goes.
HandleReviewCodeHit == <<"format_result", "drop cache">>

\* Variant: the guard of the lookup lives to the end of the handler.
HandleReviewCodeMissHoldingCache ==
    EvaluateInternalPath \o <<"insert_by_code", "drop cache", "format_result">>

\* handle_review_code on a miss
HandleReviewCodeMiss ==
    <<"drop cache">> \o EvaluateInternalPath
        \o <<"cache.write", "insert_by_code", "drop cache", "format_result">>

LockTools ==
    {"tetrad_review_plan", "tetrad_review_code", "tetrad_confirm", "tetrad_final_check",
     "tetrad_status"}

\* The statements of the handler of a tool, parameters valid; final_check is
\* given a previous_request_id.
HandlerPath(tool) ==
    CASE tool = "tetrad_review_plan" -> EvaluateInternalPath \o <<"format_result">>
      [] tool = "tetrad_review_code" -> <<"cache.write", "get_by_code">>
      [] tool = "tetrad_confirm" ->
            <<"confirmations.write", "insert", "drop confirmations">>
      [] tool = "tetrad_final_check" ->
            <<"confirmations.read", "get", "drop confirmations">>
                \o EvaluateInternalPath \o <<"format_result">>
      [] tool = "tetrad_status" -> <<"is_available", "cache.read", "stats", "drop cache">>

\* The guards of a lock held by any call.
Holders(lock) == {g \in UNION {call_held[c] : c \in Calls} : g.lock = lock}

\* tokio's RwLock and Mutex: a read guard is given while no write guard is
\* held, a write guard and the guard of a Mutex while no guard is held.
CanAcquire(guard) ==
    IF guard.mode = "read"
    THEN \A g \in Holders(guard.lock) : g.mode = "read"
    ELSE Holders(guard.lock) = {}

Executes(c, statements) ==
    /\ call_rest[c] # <<>>
    /\ Head(call_rest[c]) \in statements

Advance(c) ==
    /\ call_at' = [call_at EXCEPT ![c] = Head(call_rest[c])]
    /\ call_rest' = [call_rest EXCEPT ![c] = Tail(@)]

\* self.cache.write().await and the like
Acquire(c) ==
    /\ Executes(c, DOMAIN Acquires)
    /\ CanAcquire(Acquires[Head(call_rest[c])])
    /\ call_held' = [call_held EXCEPT ![c] = @ \cup {Acquires[Head(call_rest[c])]}]
    /\ Advance(c)
    /\ UNCHANGED cache_filled

\* The end of a block that holds a guard
Drop(c) ==
    /\ Executes(c, DOMAIN Drops)
    /\ call_held' = [call_held EXCEPT ![c] = {g \in @ : g.lock # Drops[Head(call_rest[c])]}]
    /\ Advance(c)
    /\ UNCHANGED cache_filled

\* cache.get_by_code in handle_review_code, and the branch on its result
LookUp(c) ==
    /\ Executes(c, {"get_by_code"})
    /\ call_at' = [call_at EXCEPT ![c] = "get_by_code"]
    /\ call_rest' = [call_rest EXCEPT ![c] = IF cache_filled THEN HandleReviewCodeHit
                                             ELSE HandleReviewCodeMiss]
    /\ UNCHANGED <<call_held, cache_filled>>

\* cache.insert_by_code in handle_review_code
Fill(c) ==
    /\ Executes(c, {"insert_by_code"})
    /\ cache_filled' = TRUE
    /\ Advance(c)
    /\ UNCHANGED call_held

\* Any other statement: it takes and drops no guard.
Proceed(c) ==
    /\ Executes(c, {"run_pre_evaluate", "retrieve", "collect_votes", "join",
                    "consensus.evaluate", "run_post_evaluate", "judge", "format_result",
                    "insert", "get", "is_available", "stats"})
    /\ Advance(c)
    /\ UNCHANGED <<call_held, cache_filled>>

othersOfLocks ==
    <<ruleVars, cacheVars, serverVars, toolVars, bankVars, runVars, parseVars, hookVars>>

AcquireSteps == \E c \in Calls : Acquire(c) /\ UNCHANGED othersOfLocks

DropSteps == \E c \in Calls : Drop(c) /\ UNCHANGED othersOfLocks

LookUps == \E c \in Calls : LookUp(c) /\ UNCHANGED othersOfLocks

Fills == \E c \in Calls : Fill(c) /\ UNCHANGED othersOfLocks

Proceeds == \E c \in Calls : Proceed(c) /\ UNCHANGED othersOfLocks

InitLocks ==
    /\ call_rest \in [Calls -> {HandlerPath(tool) : tool \in LockTools}]
    /\ call_at = [c \in Calls |-> "called"]
    /\ call_held = [c \in Calls |-> {}]
    /\ cache_filled \in BOOLEAN
    /\ ParseIdle
    /\ HooksIdle
    /\ RunIdle
    /\ BankIdle
    /\ CacheIdle
    /\ RulesIdle
    /\ ServerIdle
    /\ ToolsIdle

NextLocks == AcquireSteps \/ DropSteps \/ LookUps \/ Fills \/ Proceeds

SpecLocks == InitLocks /\ [][NextLocks]_vars

\* The locks a call holds a guard of.
LocksHeld(c) == {g.lock : g \in call_held[c]}

\* The reviewers of the call are running: collect_votes has started them and
\* has not joined them yet.
ReviewersRunning(c) == call_at[c] = "collect_votes"

\* The call is between taking the lock of the bank and dropping its guard.
InRetrieveOrJudge(c) == call_at[c] \in {"reasoning_bank.lock", "retrieve", "judge"}

\* C39: no ToolHandler code path holds more than one of the cache lock, the
\* reasoning-bank lock and the confirmations lock at the same time, and none
\* of them is held while reviewers are running; hence concurrent tool calls
\* on one handler cannot deadlock, and the Retrieve and Judge executions of
\* different calls never overlap.
C39_OneLockAtATime ==
    /\ \A c \in DOMAIN call_rest :
          /\ Cardinality(LocksHeld(c)) <= 1
          /\ ReviewersRunning(c) => call_held[c] = {}
    /\ \A a, b \in DOMAIN call_rest :
          (InRetrieveOrJudge(a) /\ InRetrieveOrJudge(b)) => a = b
    /\ (\E c \in DOMAIN call_rest : call_rest[c] # <<>>) => ENABLED NextLocks

\* The reviewers of one call are running while another call judges, and a
\* result is in the cache.
C39_Witness ==
    /\ DOMAIN call_rest = Calls
    /\ ReviewersRunning(1)
    /\ call_at[2] = "judge"
    /\ LocksHeld(2) = {"reasoning_bank"}
    /\ cache_filled

====
